---------------------------- MODULE Spec2Model ----------------------------
(***************************************************************************)
(* MacroWeb: the goal / energy-balance engine (lib/algorithm), the         *)
(* onboarding wizard that stores the first targets, and the weekly         *)
(* check-in page and form that replace them.                               *)
(*                                                                         *)
(* Numbers.  A JavaScript number is modelled as an exact fraction <<n, d>> *)
(* in lowest terms with d >= 0: d > 0 is the finite value n/d, <<1, 0>>    *)
(* and <<-1, 0>> are +Infinity and -Infinity and <<0, 0>> is NaN.  The     *)
(* arithmetic is exact: the binary rounding error of IEEE doubles is not   *)
(* modelled.                                                               *)
(*                                                                         *)
(* Time.  The clock `now' counts ticks; a day has msPerDay ticks.  A       *)
(* calendar date (a DATE column, an ISO yyyy-mm-dd string) is a day        *)
(* number, and new Date(date) is midnight of that day.                     *)
(***************************************************************************)
EXTENDS Integers, Sequences, FiniteSets, TLC

VARIABLES
    now,             \* the wall clock read by new Date(), in ticks
    goals,           \* the user's row of table goals, or NoRow
    weight_history,  \* table weight_history: logged_date -> weight
    check_ins,       \* table check_ins: the inserted rows, in order
    forms,           \* per browser tab: the mounted CheckInForm, or NoForm
    call,            \* the library call in progress: its name and arguments
    ret              \* what that call returned

vars == <<now, goals, weight_history, check_ins, forms, call, ret>>

---------------------------------------------------------------------------
(* Bounds of the model                                                     *)

TicksPerDay == 2      \* clock ticks per day
MaxCallTick == 3      \* library calls happen at clock readings 0..MaxCallTick
WeightSpan == 2       \* body weights range over 200.0 lbs +- WeightSpan tenths
MaxDaysTracked == 8   \* calculateTrueTDEE is called with 1..MaxDaysTracked days
MaxWeeks == 11        \* the application is followed for MaxWeeks weeks
MaxDashDays == 9      \* the dashboard is followed for MaxDashDays days
MaxFormWeeks == 1     \* two open check-in forms are followed for MaxFormWeeks weeks
MaxCheckIns == 2      \* and until MaxCheckIns check_ins rows are stored
RateSpan == 40        \* weekly changes range over +- RateSpan tenths of a pound
CalorieSpan == 40     \* macro grams are computed for 1200..1200 + CalorieSpan kcal

---------------------------------------------------------------------------
(* JavaScript numbers                                                      *)

Sign(i) == IF i > 0 THEN 1 ELSE IF i < 0 THEN -1 ELSE 0

Abs(i) == IF i < 0 THEN -i ELSE i

RECURSIVE GCD(_, _)
GCD(a, b) == IF b = 0 THEN a ELSE GCD(b, a % b)

\* the fraction n/d in lowest terms, d >= 0
Frac(n, d) ==
    IF d = 0 THEN <<Sign(n), 0>>
    ELSE LET g == GCD(Abs(n), Abs(d))
         IN  <<Sign(d) * (n \div g), Abs(d) \div g>>

Num(i) == <<i, 1>>

NaN == <<0, 0>>

IsNaN(x) == x = NaN

Plus(x, y) ==
    IF IsNaN(x) \/ IsNaN(y) THEN NaN
    ELSE IF x[2] = 0 /\ y[2] = 0 THEN (IF x = y THEN x ELSE NaN)
    ELSE IF x[2] = 0 THEN x
    ELSE IF y[2] = 0 THEN y
    ELSE Frac(x[1] * y[2] + y[1] * x[2], x[2] * y[2])

Neg(x) == <<-x[1], x[2]>>

Minus(x, y) == Plus(x, Neg(y))

\* the factors are reduced crosswise first, to keep the products small
Times(x, y) ==
    IF x[2] = 0 \/ y[2] = 0 THEN <<Sign(x[1]) * Sign(y[1]), 0>>
    ELSE LET g1 == GCD(Abs(x[1]), y[2])
             g2 == GCD(Abs(y[1]), x[2])
         IN  Frac((x[1] \div g1) * (y[1] \div g2), (x[2] \div g2) * (y[2] \div g1))

\* 1/y: 1/0 is +Infinity, 1/Infinity is 0
Inverse(y) ==
    IF IsNaN(y) THEN NaN
    ELSE IF y[2] = 0 THEN Num(0)
    ELSE IF y[1] = 0 THEN <<1, 0>>
    ELSE <<Sign(y[1]) * y[2], Abs(y[1])>>

Over(x, y) == Times(x, Inverse(y))

\* x < y; any comparison with NaN is false
Less(x, y) ==
    /\ ~IsNaN(x)
    /\ ~IsNaN(y)
    /\ IF x[2] = 0 /\ y[2] = 0 THEN x[1] < y[1]
       ELSE x[1] * y[2] < y[1] * x[2]

Greater(x, y) == Less(y, x)

LessEq(x, y) == ~IsNaN(x) /\ ~IsNaN(y) /\ ~Less(y, x)

GreaterEq(x, y) == LessEq(y, x)

MathAbs(x) == <<Abs(x[1]), x[2]>>

\* Math.round: the nearest integer, a tie going up (towards +Infinity)
MathRound(x) ==
    IF x[2] = 0 THEN x
    ELSE Num((2 * x[1] + x[2]) \div (2 * x[2]))

MathMax(x, y) ==
    IF IsNaN(x) \/ IsNaN(y) THEN NaN
    ELSE IF Less(x, y) THEN y ELSE x

---------------------------------------------------------------------------
(* lib/algorithm: constants                                                *)

CALORIES_PER_POUND == 3500

MIN_CALORIES_MALE == 1500

MIN_CALORIES_FEMALE == 1200

Gender == {"male", "female", "other"}

MacroPreference == {"balanced", "high_protein", "low_carb", "keto", "manual"}

\* mutation: the keto preset is given 10% carbs without taking them from fat
MACRO_PRESETS_ketoCarbs ==
    [ balanced     |-> [protein |-> Frac(30, 100), carbs |-> Frac(35, 100), fat |-> Frac(35, 100)],
      high_protein |-> [protein |-> Frac(40, 100), carbs |-> Frac(30, 100), fat |-> Frac(30, 100)],
      low_carb     |-> [protein |-> Frac(35, 100), carbs |-> Frac(20, 100), fat |-> Frac(45, 100)],
      keto         |-> [protein |-> Frac(30, 100), carbs |-> Frac(10, 100), fat |-> Frac(65, 100)],
      manual       |-> [protein |-> Frac(30, 100), carbs |-> Frac(35, 100), fat |-> Frac(35, 100)] ]

MACRO_PRESETS ==
    [ balanced     |-> [protein |-> Frac(30, 100), carbs |-> Frac(35, 100), fat |-> Frac(35, 100)],
      high_protein |-> [protein |-> Frac(40, 100), carbs |-> Frac(30, 100), fat |-> Frac(30, 100)],
      low_carb     |-> [protein |-> Frac(35, 100), carbs |-> Frac(20, 100), fat |-> Frac(45, 100)],
      keto         |-> [protein |-> Frac(30, 100), carbs |-> Frac(5, 100),  fat |-> Frac(65, 100)],
      manual       |-> [protein |-> Frac(30, 100), carbs |-> Frac(35, 100), fat |-> Frac(35, 100)] ]

CALORIES_PER_GRAM == [protein |-> 4, carbs |-> 4, fat |-> 9]

MAX_WEEKLY_LOSS_LBS == 2

MAX_WEEKLY_GAIN_LBS == 1

ActivityLevel == {"sedentary", "light", "moderate", "active", "very_active"}

\* The decimal literals.  The doubles that stand for 1.2, 1.55, 1.725 and 1.9
\* are off by less than 0.93 * 2^-54 of their value, which is under half a
\* unit in the last place of any product: where bmr is computed exactly (a
\* multiple of 1/4 below 2^12) and the exact product is a double (as is every
\* n + 0.5), bmr * multiplier rounds to that double; elsewhere it is within
\* two units of it, nowhere near a tie.  So Math.round of the double product
\* is Math.round of the exact one.
ACTIVITY_MULTIPLIERS ==
    [ sedentary   |-> Frac(12, 10),
      light       |-> Frac(1375, 1000),
      moderate    |-> Frac(155, 100),
      active      |-> Frac(1725, 1000),
      very_active |-> Frac(19, 10) ]

---------------------------------------------------------------------------
(* lib/algorithm: dates                                                    *)

msPerDay == TicksPerDay

\* new Date(date).getTime() for a calendar date: midnight of that day
DateOf(day) == day * msPerDay

\* new Date().toISOString().split('T')[0]: the calendar date of an instant
Today(t) == t \div msPerDay

daysBetween(startDate, endDate) ==
    LET diffMs == endDate - startDate
    IN  MathRound(Frac(diffMs, msPerDay))

\* mutation: the early return for weeks <= 0 is missing
calculateRequiredWeeklyChange_unguarded(currentWeightLbs, targetWeightLbs, targetDate, t) ==
    LET days == daysBetween(t, targetDate)
        weeks == Over(days, Num(7))
        totalChange == Minus(targetWeightLbs, currentWeightLbs)
    IN  Over(totalChange, weeks)

\* targetDate is an instant (ticks); the clock is read at the call
calculateRequiredWeeklyChange(currentWeightLbs, targetWeightLbs, targetDate, t) ==
    LET days == daysBetween(t, targetDate)
        weeks == Over(days, Num(7))
        totalChange == Minus(targetWeightLbs, currentWeightLbs)
    IN  IF LessEq(weeks, Num(0)) THEN Num(0)
        ELSE Over(totalChange, weeks)

---------------------------------------------------------------------------
(* lib/algorithm: metabolic estimator                                      *)

\* The calendar behind Date: days are counted from 1970-01-01 (day 0).

CalendarYears == 1900..2100

\* the day on which year y begins (DayFromYear of ECMAScript)
DayFromYear(y) ==
    365 * (y - 1970) + ((y - 1969) \div 4) - ((y - 1901) \div 100) + ((y - 1601) \div 400)

\* the year a day falls in
YearFromDay(day) ==
    CHOOSE y \in CalendarYears : DayFromYear(y) <= day /\ day < DayFromYear(y + 1)

InLeapYear(y) == DayFromYear(y + 1) - DayFromYear(y) = 366

\* new Date('yyyy-mm-dd'): the day number of a calendar date
DayOfDate(y, m, d) ==
    LET monthDays == << 31, IF InLeapYear(y) THEN 29 ELSE 28, 31, 30, 31, 30,
                        31, 31, 30, 31, 30, 31 >>
        RECURSIVE before(_)
        before(k) == IF k = 0 THEN 0 ELSE monthDays[k] + before(k - 1)
    IN  DayFromYear(y) + before(m - 1) + (d - 1)

\* both arguments are instants (ticks)
calculateAge(dateOfBirth, referenceDate) ==
    LET ageDiffMs == referenceDate - dateOfBirth
        getUTCFullYear == YearFromDay(ageDiffMs \div msPerDay)
    IN  Num(Abs(getUTCFullYear - 1970))

\* input is a BMRInput record
calculateBMR(input) ==
    LET base == Minus(Plus(Times(Num(10), input.weightKg),
                           Times(Frac(625, 100), input.heightCm)),
                      Times(Num(5), input.ageYears))
    IN  IF input.gender = "male" THEN Plus(base, Num(5))
        ELSE IF input.gender = "female" THEN Minus(base, Num(161))
        ELSE Minus(base, Num(78))

\* mutation: the product is truncated instead of rounded
calculateTDEE_truncated(input) ==
    LET bmr == calculateBMR(input)
        product == Times(bmr, ACTIVITY_MULTIPLIERS[input.activityLevel])
    IN  Num(product[1] \div product[2])

\* input is a TDEEInput record
calculateTDEE(input) ==
    LET bmr == calculateBMR(input)
    IN  MathRound(Times(bmr, ACTIVITY_MULTIPLIERS[input.activityLevel]))

---------------------------------------------------------------------------
(* lib/algorithm: goal translator                                          *)

\* Number.prototype.toFixed(1) of a number >= 0: the decimal string with
\* one digit after the point, the nearest one, a tie going up
ToFixed1(x) ==
    IF IsNaN(x) THEN "NaN"
    ELSE IF x[2] = 0 THEN "Infinity"
    ELSE LET n == MathRound(Times(x, Num(10)))[1]
         IN  ToString(n \div 10) \o "." \o ToString(n % 10)

\* The messages of validateGoalSafety, as the sequence of their words.

LossUnrealisticMessage(absChange) ==
    << "Losing", ToFixed1(absChange), "lbs/week", "is", "extremely", "dangerous", "and",
       "unrealistic.", "Maximum", "recommended", "is", ToString(MAX_WEEKLY_LOSS_LBS),
       "lbs/week." >>

LossAggressiveMessage(absChange) ==
    << "Losing", ToFixed1(absChange), "lbs/week", "is", "aggressive", "and", "may", "not",
       "be", "sustainable.", "Consider", "a", "more", "gradual", "approach." >>

GainUnrealisticMessage(absChange) ==
    << "Gaining", ToFixed1(absChange), "lbs/week", "will", "likely", "result", "in",
       "excessive", "fat", "gain.", "Maximum", "recommended", "is",
       ToString(MAX_WEEKLY_GAIN_LBS), "lb/week." >>

GainAggressiveMessage(absChange) ==
    << "Gaining", ToFixed1(absChange), "lbs/week", "is", "aggressive.", "Consider", "a",
       "slower", "approach", "for", "lean", "gains." >>

SafeMessage == << "Your", "goal", "is", "realistic", "and", "safe." >>

\* mutation: the limits themselves already count as exceeded (>= for >)
validateGoalSafety_inclusive(weeklyChange) ==
    LET absChange == MathAbs(weeklyChange)
        safe == [isSafe |-> TRUE, isRealistic |-> TRUE, message |-> SafeMessage]
    IN  IF Less(weeklyChange, Num(0)) THEN
            IF GreaterEq(absChange, Times(Num(MAX_WEEKLY_LOSS_LBS), Frac(15, 10))) THEN
                [ isSafe |-> FALSE, isRealistic |-> FALSE,
                  message |-> LossUnrealisticMessage(absChange) ]
            ELSE IF GreaterEq(absChange, Num(MAX_WEEKLY_LOSS_LBS)) THEN
                [ isSafe |-> FALSE, isRealistic |-> TRUE,
                  message |-> LossAggressiveMessage(absChange) ]
            ELSE safe
        ELSE IF Greater(weeklyChange, Num(0)) THEN
            IF GreaterEq(absChange, Times(Num(MAX_WEEKLY_GAIN_LBS), Frac(15, 10))) THEN
                [ isSafe |-> FALSE, isRealistic |-> FALSE,
                  message |-> GainUnrealisticMessage(absChange) ]
            ELSE IF GreaterEq(absChange, Num(MAX_WEEKLY_GAIN_LBS)) THEN
                [ isSafe |-> FALSE, isRealistic |-> TRUE,
                  message |-> GainAggressiveMessage(absChange) ]
            ELSE safe
        ELSE safe

\* mutation: a loss is held to the limits of a gain
validateGoalSafety_gainLimits(weeklyChange) ==
    LET absChange == MathAbs(weeklyChange)
        safe == [isSafe |-> TRUE, isRealistic |-> TRUE, message |-> SafeMessage]
    IN  IF Less(weeklyChange, Num(0)) THEN
            IF Greater(absChange, Times(Num(MAX_WEEKLY_GAIN_LBS), Frac(15, 10))) THEN
                [ isSafe |-> FALSE, isRealistic |-> FALSE,
                  message |-> LossUnrealisticMessage(absChange) ]
            ELSE IF Greater(absChange, Num(MAX_WEEKLY_GAIN_LBS)) THEN
                [ isSafe |-> FALSE, isRealistic |-> TRUE,
                  message |-> LossAggressiveMessage(absChange) ]
            ELSE safe
        ELSE IF Greater(weeklyChange, Num(0)) THEN
            IF Greater(absChange, Times(Num(MAX_WEEKLY_GAIN_LBS), Frac(15, 10))) THEN
                [ isSafe |-> FALSE, isRealistic |-> FALSE,
                  message |-> GainUnrealisticMessage(absChange) ]
            ELSE IF Greater(absChange, Num(MAX_WEEKLY_GAIN_LBS)) THEN
                [ isSafe |-> FALSE, isRealistic |-> TRUE,
                  message |-> GainAggressiveMessage(absChange) ]
            ELSE safe
        ELSE safe

validateGoalSafety(weeklyChange) ==
    LET absChange == MathAbs(weeklyChange)
        safe == [isSafe |-> TRUE, isRealistic |-> TRUE, message |-> SafeMessage]
    IN  IF Less(weeklyChange, Num(0)) THEN
            \* weight loss
            IF Greater(absChange, Times(Num(MAX_WEEKLY_LOSS_LBS), Frac(15, 10))) THEN
                [ isSafe |-> FALSE, isRealistic |-> FALSE,
                  message |-> LossUnrealisticMessage(absChange) ]
            ELSE IF Greater(absChange, Num(MAX_WEEKLY_LOSS_LBS)) THEN
                [ isSafe |-> FALSE, isRealistic |-> TRUE,
                  message |-> LossAggressiveMessage(absChange) ]
            ELSE safe
        ELSE IF Greater(weeklyChange, Num(0)) THEN
            \* weight gain
            IF Greater(absChange, Times(Num(MAX_WEEKLY_GAIN_LBS), Frac(15, 10))) THEN
                [ isSafe |-> FALSE, isRealistic |-> FALSE,
                  message |-> GainUnrealisticMessage(absChange) ]
            ELSE IF Greater(absChange, Num(MAX_WEEKLY_GAIN_LBS)) THEN
                [ isSafe |-> FALSE, isRealistic |-> TRUE,
                  message |-> GainAggressiveMessage(absChange) ]
            ELSE safe
        ELSE safe

\* mutation: the floor for men is dropped
minCalories_femaleOnly(gender) == Num(MIN_CALORIES_FEMALE)

minCalories(gender) ==
    IF gender = "male" THEN Num(MIN_CALORIES_MALE) ELSE Num(MIN_CALORIES_FEMALE)

\* mutation: the floor is applied as a cap
calculateDailyCalorieTarget_capped(tdee, currentWeightLbs, targetWeightLbs, targetDate, gender, t) ==
    LET weeklyChange ==
            calculateRequiredWeeklyChange(currentWeightLbs, targetWeightLbs, targetDate, t)
        dailyDeficitSurplus == Over(Times(weeklyChange, Num(CALORIES_PER_POUND)), Num(7))
        rounded == MathRound(Plus(tdee, dailyDeficitSurplus))
        dailyCalories == IF Greater(rounded, minCalories(gender))
                         THEN minCalories(gender) ELSE rounded
    IN  [ dailyCalories       |-> dailyCalories,
          weeklyChange        |-> weeklyChange,
          dailyDeficitSurplus |-> dailyDeficitSurplus ]

calculateDailyCalorieTarget(tdee, currentWeightLbs, targetWeightLbs, targetDate, gender, t) ==
    LET weeklyChange ==
            calculateRequiredWeeklyChange(currentWeightLbs, targetWeightLbs, targetDate, t)
        dailyDeficitSurplus == Over(Times(weeklyChange, Num(CALORIES_PER_POUND)), Num(7))
        rounded == MathRound(Plus(tdee, dailyDeficitSurplus))
        dailyCalories == IF Less(rounded, minCalories(gender))
                         THEN minCalories(gender) ELSE rounded
    IN  [ dailyCalories       |-> dailyCalories,
          weeklyChange        |-> weeklyChange,
          dailyDeficitSurplus |-> dailyDeficitSurplus ]

\* mutation: the ratios are used as given, without dividing by their sum
calculateMacroGrams_unnormalized(dailyCalories, proteinRatio, carbsRatio, fatRatio) ==
    [ proteinGrams |->
        MathRound(Over(Times(dailyCalories, proteinRatio), Num(CALORIES_PER_GRAM.protein))),
      carbsGrams |->
        MathRound(Over(Times(dailyCalories, carbsRatio), Num(CALORIES_PER_GRAM.carbs))),
      fatGrams |->
        MathRound(Over(Times(dailyCalories, fatRatio), Num(CALORIES_PER_GRAM.fat))) ]

\* mutation: the grams are truncated instead of rounded
calculateMacroGrams_truncated(dailyCalories, proteinRatio, carbsRatio, fatRatio) ==
    LET total == Plus(Plus(proteinRatio, carbsRatio), fatRatio)
        grams(ratio, kcalPerGram) ==
            LET x == Over(Times(dailyCalories, Over(ratio, total)), Num(kcalPerGram))
            IN  IF x[2] = 0 THEN x ELSE Num(x[1] \div x[2])
    IN  [ proteinGrams |-> grams(proteinRatio, CALORIES_PER_GRAM.protein),
          carbsGrams   |-> grams(carbsRatio, CALORIES_PER_GRAM.carbs),
          fatGrams     |-> grams(fatRatio, CALORIES_PER_GRAM.fat) ]

calculateMacroGrams(dailyCalories, proteinRatio, carbsRatio, fatRatio) ==
    LET total == Plus(Plus(proteinRatio, carbsRatio), fatRatio)
        normalizedProtein == Over(proteinRatio, total)
        normalizedCarbs == Over(carbsRatio, total)
        normalizedFat == Over(fatRatio, total)
    IN  [ proteinGrams |->
            MathRound(Over(Times(dailyCalories, normalizedProtein), Num(CALORIES_PER_GRAM.protein))),
          carbsGrams |->
            MathRound(Over(Times(dailyCalories, normalizedCarbs), Num(CALORIES_PER_GRAM.carbs))),
          fatGrams |->
            MathRound(Over(Times(dailyCalories, normalizedFat), Num(CALORIES_PER_GRAM.fat))) ]

\* customRatios is a ratio record, or NoRatios when the argument is omitted
NoRatios == [protein |-> NaN, carbs |-> NaN, fat |-> NaN]

\* mutation: custom ratios are used whenever they are passed
getMacroTargets_customFirst(dailyCalories, preference, customRatios) ==
    LET ratios == IF customRatios # NoRatios
                  THEN customRatios
                  ELSE MACRO_PRESETS[preference]
        grams == calculateMacroGrams(dailyCalories, ratios.protein, ratios.carbs, ratios.fat)
    IN  [ dailyCalories |-> dailyCalories,
          proteinGrams  |-> grams.proteinGrams,
          carbsGrams    |-> grams.carbsGrams,
          fatGrams      |-> grams.fatGrams ]

getMacroTargets(dailyCalories, preference, customRatios) ==
    LET ratios == IF preference = "manual" /\ customRatios # NoRatios
                  THEN customRatios
                  ELSE MACRO_PRESETS[preference]
        grams == calculateMacroGrams(dailyCalories, ratios.protein, ratios.carbs, ratios.fat)
    IN  [ dailyCalories |-> dailyCalories,
          proteinGrams  |-> grams.proteinGrams,
          carbsGrams    |-> grams.carbsGrams,
          fatGrams      |-> grams.fatGrams ]

---------------------------------------------------------------------------
(* lib/algorithm: weekly coaching engine                                   *)

\* an argument that is left out
Undefined == << >>

\* mutation: the period is taken to be a week whatever daysTracked says
calculateTrueTDEE_alwaysWeek(avgDailyCalories, weightChangeLbs, daysTrackedArg) ==
    LET dailyCalorieChange == Over(Times(weightChangeLbs, Num(CALORIES_PER_POUND)), Num(7))
    IN  MathRound(Minus(avgDailyCalories, dailyCalorieChange))

\* daysTracked is a number, or Undefined to take the default
calculateTrueTDEE(avgDailyCalories, weightChangeLbs, daysTrackedArg) ==
    LET daysTracked == IF daysTrackedArg = Undefined THEN Num(7) ELSE daysTrackedArg
        dailyCalorieChange ==
            Over(Times(weightChangeLbs, Num(CALORIES_PER_POUND)), daysTracked)
    IN  MathRound(Minus(avgDailyCalories, dailyCalorieChange))

tolerance == Frac(2, 10)

\* Each regime yields the pair <<newDailyCalories, adjustmentReason>>.

\* mutation: the upper boundary of the tolerance band counts as behind
loseAdjustment_strictBand(expectedWeeklyChange, actualWeeklyChange, currentDailyTarget) ==
    IF GreaterEq(actualWeeklyChange, Plus(expectedWeeklyChange, tolerance)) THEN
        << Minus(currentDailyTarget, Num(100)),
           "Lost less than expected. Reducing daily calories by 100." >>
    ELSE IF Less(actualWeeklyChange, Minus(expectedWeeklyChange, tolerance)) THEN
        << Plus(currentDailyTarget, Num(100)),
           "Lost more than expected. Increasing daily calories by 100 to prevent too rapid loss." >>
    ELSE
        << currentDailyTarget, "On track! No adjustment needed." >>

\* goal is to lose weight
loseAdjustment(expectedWeeklyChange, actualWeeklyChange, currentDailyTarget) ==
    IF Greater(actualWeeklyChange, Plus(expectedWeeklyChange, tolerance)) THEN
        << Minus(currentDailyTarget, Num(100)),
           "Lost less than expected. Reducing daily calories by 100." >>
    ELSE IF Less(actualWeeklyChange, Minus(expectedWeeklyChange, tolerance)) THEN
        << Plus(currentDailyTarget, Num(100)),
           "Lost more than expected. Increasing daily calories by 100 to prevent too rapid loss." >>
    ELSE
        << currentDailyTarget, "On track! No adjustment needed." >>

\* mutation: the two adjustments are exchanged
gainAdjustment_swapped(expectedWeeklyChange, actualWeeklyChange, currentDailyTarget) ==
    IF Less(actualWeeklyChange, Minus(expectedWeeklyChange, tolerance)) THEN
        << Minus(currentDailyTarget, Num(100)),
           "Gained less than expected. Increasing daily calories by 100." >>
    ELSE IF Greater(actualWeeklyChange, Plus(expectedWeeklyChange, tolerance)) THEN
        << Plus(currentDailyTarget, Num(100)),
           "Gained more than expected. Reducing daily calories by 100." >>
    ELSE
        << currentDailyTarget, "On track! No adjustment needed." >>

\* goal is to gain weight
gainAdjustment(expectedWeeklyChange, actualWeeklyChange, currentDailyTarget) ==
    IF Less(actualWeeklyChange, Minus(expectedWeeklyChange, tolerance)) THEN
        << Plus(currentDailyTarget, Num(100)),
           "Gained less than expected. Increasing daily calories by 100." >>
    ELSE IF Greater(actualWeeklyChange, Plus(expectedWeeklyChange, tolerance)) THEN
        << Minus(currentDailyTarget, Num(100)),
           "Gained more than expected. Reducing daily calories by 100." >>
    ELSE
        << currentDailyTarget, "On track! No adjustment needed." >>

\* mutation: the tolerance test forgets Math.abs
maintainAdjustment_noAbs(actualWeeklyChange, currentDailyTarget) ==
    IF Greater(actualWeeklyChange, tolerance) THEN
        IF Greater(actualWeeklyChange, Num(0)) THEN
            << Minus(currentDailyTarget, Num(50)),
               "Weight increased slightly. Reducing calories by 50." >>
        ELSE
            << Plus(currentDailyTarget, Num(50)),
               "Weight decreased slightly. Increasing calories by 50." >>
    ELSE
        << currentDailyTarget, "Maintaining weight. No adjustment needed." >>

\* maintenance
maintainAdjustment(actualWeeklyChange, currentDailyTarget) ==
    IF Greater(MathAbs(actualWeeklyChange), tolerance) THEN
        IF Greater(actualWeeklyChange, Num(0)) THEN
            << Minus(currentDailyTarget, Num(50)),
               "Weight increased slightly. Reducing calories by 50." >>
        ELSE
            << Plus(currentDailyTarget, Num(50)),
               "Weight decreased slightly. Increasing calories by 50." >>
    ELSE
        << currentDailyTarget, "Maintaining weight. No adjustment needed." >>

\* mutation: an expected gain within the tolerance is treated as maintenance
Adjustment_smallGainMaintains(expectedWeeklyChange, actualWeeklyChange, currentDailyTarget) ==
    IF Less(expectedWeeklyChange, Num(0)) THEN
        loseAdjustment(expectedWeeklyChange, actualWeeklyChange, currentDailyTarget)
    ELSE IF Greater(expectedWeeklyChange, tolerance) THEN
        gainAdjustment(expectedWeeklyChange, actualWeeklyChange, currentDailyTarget)
    ELSE
        maintainAdjustment(actualWeeklyChange, currentDailyTarget)

\* mutation: the lowest calorie floor is applied to the adjusted target
Adjustment_floored(expectedWeeklyChange, actualWeeklyChange, currentDailyTarget) ==
    LET adj == IF Less(expectedWeeklyChange, Num(0)) THEN
                   loseAdjustment(expectedWeeklyChange, actualWeeklyChange, currentDailyTarget)
               ELSE IF Greater(expectedWeeklyChange, Num(0)) THEN
                   gainAdjustment(expectedWeeklyChange, actualWeeklyChange, currentDailyTarget)
               ELSE
                   maintainAdjustment(actualWeeklyChange, currentDailyTarget)
    IN  <<MathMax(adj[1], Num(MIN_CALORIES_FEMALE)), adj[2]>>

\* the if / else-if / else ladder on the sign of expectedWeeklyChange
Adjustment(expectedWeeklyChange, actualWeeklyChange, currentDailyTarget) ==
    IF Less(expectedWeeklyChange, Num(0)) THEN
        loseAdjustment(expectedWeeklyChange, actualWeeklyChange, currentDailyTarget)
    ELSE IF Greater(expectedWeeklyChange, Num(0)) THEN
        gainAdjustment(expectedWeeklyChange, actualWeeklyChange, currentDailyTarget)
    ELSE
        maintainAdjustment(actualWeeklyChange, currentDailyTarget)

\* mutation: the macros are computed from the previous calorie target
performWeeklyCheckIn_oldTarget(input, t) ==
    LET actualWeeklyChange == Minus(input.currentWeight, input.previousWeight)
        expectedWeeklyChange ==
            calculateRequiredWeeklyChange(input.previousWeight, input.targetWeightLbs,
                                          input.targetDate, t)
        calculatedTDEE == calculateTrueTDEE(input.avgDailyCalories, actualWeeklyChange, Undefined)
        adj == Adjustment(expectedWeeklyChange, actualWeeklyChange, input.currentDailyTarget)
        newMacros == calculateMacroGrams(input.currentDailyTarget, input.proteinRatio,
                                         input.carbsRatio, input.fatRatio)
    IN  [ calculatedTDEE       |-> calculatedTDEE,
          expectedWeeklyChange |-> expectedWeeklyChange,
          actualWeeklyChange   |-> actualWeeklyChange,
          newDailyCalories     |-> adj[1],
          adjustmentReason     |-> adj[2],
          newProteinGrams      |-> newMacros.proteinGrams,
          newCarbsGrams        |-> newMacros.carbsGrams,
          newFatGrams          |-> newMacros.fatGrams ]

\* mutation: the adjustment starts from the calculated TDEE, not from the
\* current target
performWeeklyCheckIn_fromTDEE(input, t) ==
    LET actualWeeklyChange == Minus(input.currentWeight, input.previousWeight)
        expectedWeeklyChange ==
            calculateRequiredWeeklyChange(input.previousWeight, input.targetWeightLbs,
                                          input.targetDate, t)
        calculatedTDEE == calculateTrueTDEE(input.avgDailyCalories, actualWeeklyChange, Undefined)
        adj == Adjustment(expectedWeeklyChange, actualWeeklyChange, calculatedTDEE)
        newMacros == calculateMacroGrams(adj[1], input.proteinRatio,
                                         input.carbsRatio, input.fatRatio)
    IN  [ calculatedTDEE       |-> calculatedTDEE,
          expectedWeeklyChange |-> expectedWeeklyChange,
          actualWeeklyChange   |-> actualWeeklyChange,
          newDailyCalories     |-> adj[1],
          adjustmentReason     |-> adj[2],
          newProteinGrams      |-> newMacros.proteinGrams,
          newCarbsGrams        |-> newMacros.carbsGrams,
          newFatGrams          |-> newMacros.fatGrams ]

\* input is a WeeklyCheckInInput record; the clock is read at the call
performWeeklyCheckIn(input, t) ==
    LET actualWeeklyChange == Minus(input.currentWeight, input.previousWeight)
        expectedWeeklyChange ==
            calculateRequiredWeeklyChange(input.previousWeight, input.targetWeightLbs,
                                          input.targetDate, t)
        calculatedTDEE == calculateTrueTDEE(input.avgDailyCalories, actualWeeklyChange, Undefined)
        adj == Adjustment(expectedWeeklyChange, actualWeeklyChange, input.currentDailyTarget)
        newDailyCalories == adj[1]
        adjustmentReason == adj[2]
        newMacros == calculateMacroGrams(newDailyCalories, input.proteinRatio,
                                         input.carbsRatio, input.fatRatio)
    IN  [ calculatedTDEE       |-> calculatedTDEE,
          expectedWeeklyChange |-> expectedWeeklyChange,
          actualWeeklyChange   |-> actualWeeklyChange,
          newDailyCalories     |-> newDailyCalories,
          adjustmentReason     |-> adjustmentReason,
          newProteinGrams      |-> newMacros.proteinGrams,
          newCarbsGrams        |-> newMacros.carbsGrams,
          newFatGrams          |-> newMacros.fatGrams ]

\* a null Date
NoDate == -1

\* mutation: the seventh day itself does not count yet (> for >=)
isCheckInAvailable_strict(lastCheckInDate, t) ==
    IF lastCheckInDate = NoDate THEN TRUE
    ELSE LET daysSinceCheckIn == daysBetween(lastCheckInDate, t)
         IN  Greater(daysSinceCheckIn, Num(7))

\* lastCheckInDate is an instant (ticks) or NoDate; the clock is read at the call
isCheckInAvailable(lastCheckInDate, t) ==
    IF lastCheckInDate = NoDate THEN TRUE
    ELSE LET daysSinceCheckIn == daysBetween(lastCheckInDate, t)
         IN  GreaterEq(daysSinceCheckIn, Num(7))

\* mutation: the days elapsed are not subtracted from the week
daysUntilCheckIn_fullWeek(lastCheckInDate, t) ==
    IF lastCheckInDate = NoDate THEN Num(0)
    ELSE Num(7)

daysUntilCheckIn(lastCheckInDate, t) ==
    IF lastCheckInDate = NoDate THEN Num(0)
    ELSE LET daysSinceCheckIn == daysBetween(lastCheckInDate, t)
         IN  MathMax(Num(0), Minus(Num(7), daysSinceCheckIn))


---------------------------------------------------------------------------
(* The library called directly: SpecCalc                                   *)
(*                                                                         *)
(* Every exported function is a pure function of its arguments and of the  *)
(* clock.  A call step picks the arguments from the sets below, reads the  *)
(* clock and records the arguments and the result; Return forgets them.    *)

NoCall == [fn |-> "none"]

NoRet == [none |-> TRUE]

NoRow == [onboarding_completed |-> FALSE]

NoForm == [mounted |-> FALSE]

Tabs == {1, 2}

Lbs(tenths) == Frac(tenths, 10)

\* body weights around 200 lbs, in steps of 0.1 lbs
Weights == { Lbs(2000 + i) : i \in (0 - WeightSpan)..WeightSpan }

CallCurrentWeights == Weights \cup {Lbs(1970)}

CallTargetWeights == Weights \cup {Lbs(1900), Lbs(1800)}

\* target dates: today, in 1, 2 and 10 weeks
CallTargetDates == {DateOf(0), DateOf(7), DateOf(14), DateOf(70)}

CallTdees == {Num(1100), Num(1350), Frac(3201, 2), Num(1800), Num(2500)}

CallDailyTargets == {Num(1250), Num(2000)}

CallAvgCalories == {Num(1800), Num(2000), Num(3000)}

CallPreferenceAndRatios ==
    { <<"balanced",     Frac(30, 100), Frac(35, 100), Frac(35, 100)>>,
      <<"high_protein", Frac(40, 100), Frac(30, 100), Frac(30, 100)>>,
      <<"balanced",     Frac(40, 100), Frac(30, 100), Frac(30, 100)>>,
      <<"manual",       Frac(50, 100), Frac(30, 100), Frac(30, 100)>> }

CallWeightChanges == { Lbs(i) : i \in (0 - 2 * WeightSpan)..(2 * WeightSpan) } \cup {Num(-1), Num(1)}

CallDaysTracked == { Num(d) : d \in 1..MaxDaysTracked } \cup {Undefined}

InitCalc ==
    /\ now \in 0..MaxCallTick
    /\ goals = NoRow
    /\ weight_history = [d \in {} |-> Num(0)]
    /\ check_ins = << >>
    /\ forms = [tab \in Tabs |-> NoForm]
    /\ call = NoCall
    /\ ret = NoRet

CallCalculateDailyCalorieTarget ==
    /\ call = NoCall
    /\ \E tdee \in CallTdees, currentWeightLbs \in Weights, targetWeightLbs \in CallTargetWeights,
          targetDate \in CallTargetDates, gender \in Gender :
         /\ call' = [ fn |-> "calculateDailyCalorieTarget",
                      tdee |-> tdee, currentWeightLbs |-> currentWeightLbs,
                      targetWeightLbs |-> targetWeightLbs, targetDate |-> targetDate,
                      gender |-> gender ]
         /\ ret' = calculateDailyCalorieTarget(tdee, currentWeightLbs, targetWeightLbs,
                                               targetDate, gender, now)
    /\ UNCHANGED <<now, goals, weight_history, check_ins, forms>>

CallPerformWeeklyCheckIn ==
    /\ call = NoCall
    /\ \E previousWeight \in Weights, currentWeight \in CallCurrentWeights,
          avgDailyCalories \in CallAvgCalories, currentDailyTarget \in CallDailyTargets,
          targetWeightLbs \in CallTargetWeights, targetDate \in CallTargetDates,
          pr \in CallPreferenceAndRatios :
         LET input == [ previousWeight |-> previousWeight, currentWeight |-> currentWeight,
                        avgDailyCalories |-> avgDailyCalories,
                        currentDailyTarget |-> currentDailyTarget,
                        targetWeightLbs |-> targetWeightLbs, targetDate |-> targetDate,
                        macroPreference |-> pr[1], proteinRatio |-> pr[2],
                        carbsRatio |-> pr[3], fatRatio |-> pr[4] ]
         IN  /\ call' = [fn |-> "performWeeklyCheckIn", input |-> input]
             /\ ret' = performWeeklyCheckIn(input, now)
    /\ UNCHANGED <<now, goals, weight_history, check_ins, forms>>

CallCalculateTrueTDEE ==
    /\ call = NoCall
    /\ \E avgDailyCalories \in CallAvgCalories, weightChangeLbs \in CallWeightChanges,
          daysTracked \in CallDaysTracked :
         /\ call' = [ fn |-> "calculateTrueTDEE", avgDailyCalories |-> avgDailyCalories,
                      weightChangeLbs |-> weightChangeLbs, daysTracked |-> daysTracked ]
         /\ ret' = calculateTrueTDEE(avgDailyCalories, weightChangeLbs, daysTracked)
    /\ UNCHANGED <<now, goals, weight_history, check_ins, forms>>

Return ==
    /\ call # NoCall
    /\ call' = NoCall
    /\ ret' = NoRet
    /\ UNCHANGED <<now, goals, weight_history, check_ins, forms>>

NextCalc ==
    \/ CallCalculateDailyCalorieTarget
    \/ CallPerformWeeklyCheckIn
    \/ CallCalculateTrueTDEE
    \/ Return

SpecCalc == InitCalc /\ [][NextCalc]_vars


---------------------------------------------------------------------------
(* The estimator and the goal translator called directly: SpecGoal         *)

\* weekly changes in tenths and in quarters of a pound
GoalWeeklyChanges ==
    { Lbs(i) : i \in (0 - RateSpan)..RateSpan } \cup { Frac(i, 4) : i \in -13..13 }

\* target dates: today (or earlier, once the clock has moved on), tomorrow,
\* in 1, 2 and 10 weeks
GoalTargetDates == {DateOf(0), DateOf(1), DateOf(7), DateOf(14), DateOf(70)}

MacroCalories == { Num(1200 + i) : i \in 0..CalorieSpan } \cup {Num(2000)}

\* ratio triples: the presets, slider settings that add up to 1, one that
\* adds up to 1.1, one that is all protein and one that is all zero
MacroRatios ==
    { <<Frac(30, 100), Frac(35, 100), Frac(35, 100)>>,
      <<Frac(40, 100), Frac(30, 100), Frac(30, 100)>>,
      <<Frac(35, 100), Frac(20, 100), Frac(45, 100)>>,
      <<Frac(30, 100), Frac(5, 100),  Frac(65, 100)>>,
      <<Frac(45, 100), Frac(25, 100), Frac(30, 100)>>,
      <<Frac(10, 100), Frac(5, 100),  Frac(85, 100)>>,
      <<Frac(50, 100), Frac(30, 100), Frac(30, 100)>>,
      <<Num(1), Num(0), Num(0)>>,
      <<Num(0), Num(0), Num(0)>> }

\* the same triple may be passed on another scale (halves, doubles, percent)
MacroScales == {Num(1), Frac(1, 2), Num(2), Num(100)}

GoalCalories == {Num(1500), Num(2000)}

GoalCustomRatios ==
    { [protein |-> r[1], carbs |-> r[2], fat |-> r[3]] :
        r \in { <<Frac(45, 100), Frac(25, 100), Frac(30, 100)>>,
                <<Frac(40, 100), Frac(30, 100), Frac(30, 100)>>,
                <<Frac(50, 100), Frac(30, 100), Frac(30, 100)>> } } \cup {NoRatios}

\* body statistics: weight in kg (one of them negative), height in cm, age
\* in years
GoalBodies ==
    { [weightKg |-> w, heightCm |-> h, ageYears |-> a] :
        w \in {Num(65), Num(80), Frac(905, 10), Num(-80)}, h \in {Num(165), Num(180)},
        a \in {Num(28), Num(30)} }

\* dates of birth and reference dates, as <<year, month, day>>
AgeBirthDates == { <<1990, 1, 1>>, <<1990, 3, 1>>, <<1999, 3, 1>>, <<2000, 2, 29>> }

AgeReferenceDates ==
    { <<1989, 1, 1>>, <<2000, 2, 29>>, <<2001, 2, 28>>, <<2026, 2, 4>>, <<2026, 3, 1>> }

\* what a call gave back: a value (a thrown error would be [error |-> name])
Returned(value) == [value |-> value]

CallCalculateAge ==
    /\ call = NoCall
    /\ \E born \in AgeBirthDates, on \in AgeReferenceDates, timeOfDay \in 0..(msPerDay - 1) :
         LET dateOfBirth == DateOf(DayOfDate(born[1], born[2], born[3]))
             referenceDate == DateOf(DayOfDate(on[1], on[2], on[3])) + timeOfDay
         IN  /\ call' = [ fn |-> "calculateAge", born |-> born, on |-> on,
                          dateOfBirth |-> dateOfBirth, referenceDate |-> referenceDate ]
             /\ ret' = Returned(calculateAge(dateOfBirth, referenceDate))
    /\ UNCHANGED <<now, goals, weight_history, check_ins, forms>>

CallCalculateBMR ==
    /\ call = NoCall
    /\ \E gender \in Gender, body \in GoalBodies :
         LET input == [ gender |-> gender, weightKg |-> body.weightKg,
                        heightCm |-> body.heightCm, ageYears |-> body.ageYears ]
         IN  /\ call' = [fn |-> "calculateBMR", input |-> input]
             /\ ret' = calculateBMR(input)
    /\ UNCHANGED <<now, goals, weight_history, check_ins, forms>>

CallCalculateTDEE ==
    /\ call = NoCall
    /\ \E gender \in Gender, body \in GoalBodies, activityLevel \in ActivityLevel :
         LET input == [ gender |-> gender, weightKg |-> body.weightKg,
                        heightCm |-> body.heightCm, ageYears |-> body.ageYears,
                        activityLevel |-> activityLevel ]
         IN  /\ call' = [fn |-> "calculateTDEE", input |-> input]
             /\ ret' = calculateTDEE(input)
    /\ UNCHANGED <<now, goals, weight_history, check_ins, forms>>

CallCalculateRequiredWeeklyChange ==
    /\ call = NoCall
    /\ \E currentWeightLbs \in Weights, targetWeightLbs \in CallTargetWeights,
          targetDate \in GoalTargetDates :
         /\ call' = [ fn |-> "calculateRequiredWeeklyChange",
                      currentWeightLbs |-> currentWeightLbs,
                      targetWeightLbs |-> targetWeightLbs, targetDate |-> targetDate ]
         /\ ret' = calculateRequiredWeeklyChange(currentWeightLbs, targetWeightLbs,
                                                 targetDate, now)
    /\ UNCHANGED <<now, goals, weight_history, check_ins, forms>>

CallValidateGoalSafety ==
    /\ call = NoCall
    /\ \E weeklyChange \in GoalWeeklyChanges :
         /\ call' = [fn |-> "validateGoalSafety", weeklyChange |-> weeklyChange]
         /\ ret' = validateGoalSafety(weeklyChange)
    /\ UNCHANGED <<now, goals, weight_history, check_ins, forms>>

CallCalculateMacroGrams ==
    /\ call = NoCall
    /\ \E dailyCalories \in MacroCalories, r \in MacroRatios, k \in MacroScales :
         /\ call' = [ fn |-> "calculateMacroGrams", dailyCalories |-> dailyCalories,
                      proteinRatio |-> Times(k, r[1]), carbsRatio |-> Times(k, r[2]),
                      fatRatio |-> Times(k, r[3]) ]
         /\ ret' = calculateMacroGrams(dailyCalories, Times(k, r[1]), Times(k, r[2]),
                                       Times(k, r[3]))
    /\ UNCHANGED <<now, goals, weight_history, check_ins, forms>>

CallGetMacroTargets ==
    /\ call = NoCall
    /\ \E dailyCalories \in GoalCalories, preference \in MacroPreference,
          customRatios \in GoalCustomRatios :
         /\ call' = [ fn |-> "getMacroTargets", dailyCalories |-> dailyCalories,
                      preference |-> preference, customRatios |-> customRatios ]
         /\ ret' = getMacroTargets(dailyCalories, preference, customRatios)
    /\ UNCHANGED <<now, goals, weight_history, check_ins, forms>>

NextGoal ==
    \/ CallCalculateAge
    \/ CallCalculateBMR
    \/ CallCalculateTDEE
    \/ CallCalculateRequiredWeeklyChange
    \/ CallValidateGoalSafety
    \/ CallCalculateMacroGrams
    \/ CallGetMacroTargets
    \/ Return

SpecGoal == InitCalc /\ [][NextGoal]_vars


---------------------------------------------------------------------------
(* The application: onboarding wizard, check-in page, CheckInForm          *)
(*                                                                         *)
(* One user.  Of a goals row the columns that the check-in reads or writes *)
(* are kept.  The body statistics of the wizard enter the targets only     *)
(* through tdee = calculateTDEE(...), which is given with the profile. The *)
(* clock is followed from the moment the wizard is submitted.              *)

Null == [null |-> TRUE]

NoError == "null"

\* what the wizard is submitted with: gender, tdee, current and target
\* weight, days to the target date, macro preference and ratios
SysProfiles ==
    { <<"female", Num(1100), Lbs(2000), Lbs(1952), 84,
        "manual", Frac(50, 100), Frac(20, 100), Frac(30, 100)>>,
      <<"male", Num(1650), Lbs(2000), Lbs(2000), 84,
        "balanced", Frac(30, 100), Frac(35, 100), Frac(35, 100)>> }

\* what the user may type into the weight input of the form: half a pound
\* less than the weight it proposes
SysFormWeights(tab) ==
    IF forms[tab] = NoForm THEN {} ELSE {Minus(forms[tab].latestWeight, Lbs(5))}

\* the average of the logged days, or Undefined when nothing was logged
SysLoggedAverages == {Undefined}

Init ==
    /\ now = 0
    /\ goals = NoRow
    /\ weight_history = [d \in {} |-> Num(0)]
    /\ check_ins = << >>
    /\ forms = [tab \in Tabs |-> NoForm]
    /\ call = NoCall
    /\ ret = NoRet

\* insert of a row; UNIQUE(user_id, logged_date) rejects a second row for a
\* date, and the upsert of the form, which resolves conflicts on the primary
\* key only, is rejected the same way: the table is then left as it is
LogWeight(history, logged_date, weight) ==
    IF logged_date \in DOMAIN history THEN history
    ELSE [d \in DOMAIN history \cup {logged_date} |->
            IF d = logged_date THEN weight ELSE history[d]]

\* OnboardingWizard.handleSubmit with the user signed in and the goals row
\* inserted; weightLogged tells whether the insert into weight_history
\* (whose outcome the code ignores) went through
OnboardingSubmit(gender, tdee, currentWeight, targetWeight, targetDay, pr, weightLogged) ==
    /\ goals = NoRow
    /\ LET target == calculateDailyCalorieTarget(tdee, currentWeight, targetWeight,
                                                 DateOf(targetDay), gender, now)
           macros == getMacroTargets(target.dailyCalories, pr[1],
                                     [protein |-> pr[2], carbs |-> pr[3], fat |-> pr[4]])
       IN  /\ goals' = [ onboarding_completed |-> TRUE,
                         gender           |-> gender,
                         starting_weight  |-> currentWeight,
                         current_weight   |-> currentWeight,
                         target_weight    |-> targetWeight,
                         target_date      |-> targetDay,
                         macro_preference |-> pr[1],
                         protein_ratio    |-> pr[2],
                         carbs_ratio      |-> pr[3],
                         fat_ratio        |-> pr[4],
                         tdee             |-> tdee,
                         daily_calories   |-> macros.dailyCalories,
                         protein_grams    |-> macros.proteinGrams,
                         carbs_grams      |-> macros.carbsGrams,
                         fat_grams        |-> macros.fatGrams,
                         last_check_in    |-> NoDate ]
           /\ weight_history' = IF weightLogged
                                THEN LogWeight(weight_history, Today(now), currentWeight)
                                ELSE weight_history
    /\ UNCHANGED <<now, check_ins, forms, call, ret>>

\* the weight of the most recent row logged before the given date, or 0
\* (falsy, as is a missing row) when there is none
LatestWeightBefore(history, date) ==
    LET earlier == {d \in DOMAIN history : d < date}
    IN  IF earlier = {} THEN Num(0)
        ELSE history[CHOOSE d \in earlier : \A e \in earlier : e <= d]

\* value || fallback
OrElse(value, fallback) == IF value = Num(0) \/ IsNaN(value) THEN fallback ELSE value

\* CheckInPage: the server renders the form from the rows it reads now
LoadCheckInPage(tab, loggedAverage) ==
    /\ forms[tab] = NoForm
    /\ goals # NoRow
    /\ goals.onboarding_completed
    /\ LET lastCheckIn == IF goals.last_check_in = NoDate THEN NoDate
                          ELSE DateOf(goals.last_check_in)
           sevenDaysAgo == Today(now - 7 * msPerDay)
           avgDailyCalories == IF loggedAverage = Undefined THEN goals.daily_calories
                               ELSE loggedAverage
           latestWeight == LatestWeightBefore(weight_history, Today(now) + 1)
           previousWeight == LatestWeightBefore(weight_history, sevenDaysAgo)
       IN  /\ isCheckInAvailable(lastCheckIn, now)
           /\ forms' = [forms EXCEPT ![tab] =
                 [ mounted          |-> TRUE,
                   goals            |-> goals,
                   latestWeight     |-> OrElse(latestWeight, goals.current_weight),
                   previousWeight   |-> OrElse(previousWeight, goals.current_weight),
                   avgDailyCalories |-> avgDailyCalories,
                   currentWeight    |-> OrElse(latestWeight, goals.current_weight),
                   isSubmitting     |-> FALSE,
                   error            |-> NoError,
                   showResults      |-> FALSE,
                   results          |-> Null,
                   pc               |-> "idle",
                   today            |-> NoDate,
                   submitted        |-> Null ]]
    /\ UNCHANGED <<now, goals, weight_history, check_ins, call, ret>>

\* mutation: the weight input is there beside the results as well
SetCurrentWeight_always(tab, weight) ==
    /\ forms[tab] # NoForm
    /\ forms' = [forms EXCEPT ![tab].currentWeight = weight]
    /\ UNCHANGED <<now, goals, weight_history, check_ins, call, ret>>

\* the weight input's onChange; the input is rendered while !showResults
SetCurrentWeight(tab, weight) ==
    /\ forms[tab] # NoForm
    /\ ~forms[tab].showResults
    /\ forms' = [forms EXCEPT ![tab].currentWeight = weight]
    /\ UNCHANGED <<now, goals, weight_history, check_ins, call, ret>>

\* CheckInForm.handleCalculate ('Calculate Adjustments')
handleCalculate(tab) ==
    /\ forms[tab] # NoForm
    /\ ~forms[tab].showResults
    /\ LET f == forms[tab]
           checkInResults ==
               performWeeklyCheckIn(
                   [ previousWeight     |-> f.previousWeight,
                     currentWeight      |-> f.currentWeight,
                     avgDailyCalories   |-> f.avgDailyCalories,
                     currentDailyTarget |-> f.goals.daily_calories,
                     targetWeightLbs    |-> f.goals.target_weight,
                     targetDate         |-> DateOf(f.goals.target_date),
                     macroPreference    |-> f.goals.macro_preference,
                     proteinRatio       |-> f.goals.protein_ratio,
                     carbsRatio         |-> f.goals.carbs_ratio,
                     fatRatio           |-> f.goals.fat_ratio ], now)
       IN  forms' = [forms EXCEPT ![tab].results = checkInResults,
                                  ![tab].showResults = TRUE]
    /\ UNCHANGED <<now, goals, weight_history, check_ins, call, ret>>

\* the 'Back' button of the results view; unlike 'Apply Changes' it is not
\* disabled while isSubmitting
Back(tab) ==
    /\ forms[tab] # NoForm
    /\ forms[tab].showResults
    /\ forms[tab].results # Null
    /\ forms' = [forms EXCEPT ![tab].showResults = FALSE]
    /\ UNCHANGED <<now, goals, weight_history, check_ins, call, ret>>

\* CheckInForm.handleSubmit ('Apply Changes') up to the first await; the
\* handler keeps the currentWeight and the results of the render it was
\* created in, whatever the state is set to while it awaits
SubmitClick(tab) ==
    /\ forms[tab] # NoForm
    /\ forms[tab].showResults
    /\ ~forms[tab].isSubmitting
    /\ forms[tab].pc = "idle"
    /\ forms[tab].results # Null
    /\ forms' = [forms EXCEPT ![tab].isSubmitting = TRUE,
                              ![tab].error = NoError,
                              ![tab].pc = "getUser",
                              ![tab].submitted = [ currentWeight |-> forms[tab].currentWeight,
                                                   results       |-> forms[tab].results ]]
    /\ UNCHANGED <<now, goals, weight_history, check_ins, call, ret>>

\* catch and finally of handleSubmit
Caught(f, message) ==
    [f EXCEPT !.error = message, !.isSubmitting = FALSE, !.pc = "idle", !.submitted = Null]

\* supabase.auth.getUser() answers; on a user the check_ins insert is sent
SubmitGetUser(tab, user) ==
    /\ forms[tab] # NoForm
    /\ forms[tab].pc = "getUser"
    /\ forms' = [forms EXCEPT ![tab] =
                    IF user THEN [@ EXCEPT !.today = Today(now), !.pc = "insertCheckIn"]
                    ELSE Caught(@, "Not authenticated")]
    /\ UNCHANGED <<now, goals, weight_history, check_ins, call, ret>>

\* mutation: checkInError is not looked at
SubmitInsertCheckIn_unchecked(tab, ok) ==
    /\ forms[tab] # NoForm
    /\ forms[tab].pc = "insertCheckIn"
    /\ forms' = [forms EXCEPT ![tab].pc = "updateGoals"]
    /\ UNCHANGED <<now, goals, weight_history, check_ins, call, ret>>

\* the check_ins insert answers; without an error the goals update is sent
SubmitInsertCheckIn(tab, ok) ==
    /\ forms[tab] # NoForm
    /\ forms[tab].pc = "insertCheckIn"
    /\ LET f == forms[tab]
           checkInData ==
               [ weight                 |-> f.submitted.currentWeight,
                 previous_weight        |-> f.previousWeight,
                 weight_change          |-> f.submitted.results.actualWeeklyChange,
                 avg_daily_calories     |-> f.avgDailyCalories,
                 calculated_tdee        |-> f.submitted.results.calculatedTDEE,
                 expected_weekly_change |-> f.submitted.results.expectedWeeklyChange,
                 actual_weekly_change   |-> f.submitted.results.actualWeeklyChange,
                 old_daily_calories     |-> f.goals.daily_calories,
                 new_daily_calories     |-> f.submitted.results.newDailyCalories,
                 adjustment_reason      |-> f.submitted.results.adjustmentReason,
                 new_protein_grams      |-> f.submitted.results.newProteinGrams,
                 new_carbs_grams        |-> f.submitted.results.newCarbsGrams,
                 new_fat_grams          |-> f.submitted.results.newFatGrams ]
       IN  IF ok
           THEN /\ check_ins' = Append(check_ins, checkInData)
                /\ forms' = [forms EXCEPT ![tab].pc = "updateGoals"]
           ELSE /\ check_ins' = check_ins
                /\ forms' = [forms EXCEPT ![tab] = Caught(@, "checkInError")]
    /\ UNCHANGED <<now, goals, weight_history, call, ret>>

\* the goals update answers; without an error the weight upsert is sent
SubmitUpdateGoals(tab, ok) ==
    /\ forms[tab] # NoForm
    /\ forms[tab].pc = "updateGoals"
    /\ LET f == forms[tab]
       IN  IF ok
           THEN /\ goals' = IF goals = NoRow THEN goals
                            ELSE [goals EXCEPT !.current_weight = f.submitted.currentWeight,
                                               !.daily_calories = f.submitted.results.newDailyCalories,
                                               !.protein_grams = f.submitted.results.newProteinGrams,
                                               !.carbs_grams = f.submitted.results.newCarbsGrams,
                                               !.fat_grams = f.submitted.results.newFatGrams,
                                               !.last_check_in = f.today]
                /\ forms' = [forms EXCEPT ![tab].pc = "upsertWeight"]
           ELSE /\ goals' = goals
                /\ forms' = [forms EXCEPT ![tab] = Caught(@, "goalsError")]
    /\ UNCHANGED <<now, weight_history, check_ins, call, ret>>

\* the weight_history upsert answers (its outcome is not looked at), then
\* router.push('/dashboard') takes the form off the screen
SubmitUpsertWeight(tab, ok) ==
    /\ forms[tab] # NoForm
    /\ forms[tab].pc = "upsertWeight"
    /\ weight_history' = IF ok
                         THEN LogWeight(weight_history, forms[tab].today, forms[tab].submitted.currentWeight)
                         ELSE weight_history
    /\ forms' = [forms EXCEPT ![tab] = NoForm]
    /\ UNCHANGED <<now, goals, check_ins, call, ret>>

\* the user leaves the check-in page without submitting
LeavePage(tab) ==
    /\ forms[tab] # NoForm
    /\ forms[tab].pc = "idle"
    /\ forms' = [forms EXCEPT ![tab] = NoForm]
    /\ UNCHANGED <<now, goals, weight_history, check_ins, call, ret>>

\* time passes; a submission under way is taken to complete within the
\* tick (after the clock is read for `today' its steps do not depend on it)
Tick(ticks, horizon) ==
    /\ goals # NoRow
    /\ \A tab \in Tabs : forms[tab] # NoForm => forms[tab].pc = "idle"
    /\ now + ticks <= horizon
    /\ now' = now + ticks
    /\ UNCHANGED <<goals, weight_history, check_ins, forms, call, ret>>

Onboard ==
    \E p \in SysProfiles :
        OnboardingSubmit(p[1], p[2], p[3], p[4], Today(now) + p[5], <<p[6], p[7], p[8], p[9]>>, TRUE)

\* the check-in page would render the form now
CheckInDue ==
    /\ goals # NoRow
    /\ isCheckInAvailable(IF goals.last_check_in = NoDate THEN NoDate
                          ELSE DateOf(goals.last_check_in), now)

\* the weekly routine: once this week's check-in is applied the user comes
\* back a week later
WeekPasses ==
    /\ ~CheckInDue
    /\ Tick(7 * msPerDay, MaxWeeks * 7 * msPerDay)

\* The user onboards and then checks in week after week, taking the weight
\* the form proposes or typing another one; every request succeeds.
Next ==
    \/ Onboard
    \/ \E loggedAverage \in SysLoggedAverages : LoadCheckInPage(1, loggedAverage)
    \/ \E weight \in SysFormWeights(1) : SetCurrentWeight(1, weight)
    \/ handleCalculate(1)
    \/ SubmitClick(1)
    \/ SubmitGetUser(1, TRUE)
    \/ SubmitInsertCheckIn(1, TRUE)
    \/ SubmitUpdateGoals(1, TRUE)
    \/ SubmitUpsertWeight(1, TRUE)
    \/ WeekPasses

Spec == Init /\ [][Next]_vars

---------------------------------------------------------------------------
(* The goal translator called twice: SpecRepeat                            *)
(*                                                                         *)
(* A call is made, the clock may move on, and the same call is made again  *)
(* with the arguments of the first; ret holds the latest output.           *)

\* new Date() reads a later instant
ClockAdvances ==
    /\ now < MaxCallTick
    /\ now' = now + 1
    /\ UNCHANGED <<goals, weight_history, check_ins, forms, call, ret>>

CallAgain ==
    /\ call # NoCall
    /\ call' = call
    /\ ret' = CASE call.fn = "calculateRequiredWeeklyChange" ->
                     calculateRequiredWeeklyChange(call.currentWeightLbs, call.targetWeightLbs,
                                                   call.targetDate, now)
                [] call.fn = "calculateDailyCalorieTarget" ->
                     calculateDailyCalorieTarget(call.tdee, call.currentWeightLbs,
                                                 call.targetWeightLbs, call.targetDate,
                                                 call.gender, now)
                [] call.fn = "performWeeklyCheckIn" ->
                     performWeeklyCheckIn(call.input, now)
    /\ UNCHANGED <<now, goals, weight_history, check_ins, forms>>

NextRepeat ==
    \/ CallCalculateRequiredWeeklyChange
    \/ CallCalculateDailyCalorieTarget
    \/ CallPerformWeeklyCheckIn
    \/ ClockAdvances
    \/ CallAgain
    \/ Return

SpecRepeat == InitCalc /\ [][NextRepeat]_vars

---------------------------------------------------------------------------
(* The dashboard between check-ins: SpecDashboard                          *)
(*                                                                         *)
(* The user onboards, checks in with the weight the form proposes and      *)
(* looks at the dashboard as the days go by, half a day at a time.         *)

\* DashboardContent: the two lines that tell whether a check-in is due
RenderDashboard ==
    /\ call = NoCall
    /\ goals # NoRow
    /\ LET lastCheckIn == IF goals.last_check_in = NoDate THEN NoDate
                          ELSE DateOf(goals.last_check_in)
       IN  /\ call' = [fn |-> "DashboardContent", last_check_in |-> goals.last_check_in]
           /\ ret' = [ checkInAvailable |-> isCheckInAvailable(lastCheckIn, now),
                       daysUntilNext    |-> daysUntilCheckIn(lastCheckIn, now) ]
    /\ UNCHANGED <<now, goals, weight_history, check_ins, forms>>

\* the clock moves on by one tick while nothing is being rendered
ClockTick ==
    /\ call = NoCall
    /\ Tick(1, MaxDashDays * msPerDay)

NextDashboard ==
    \/ Onboard
    \/ \E loggedAverage \in SysLoggedAverages : LoadCheckInPage(1, loggedAverage)
    \/ handleCalculate(1)
    \/ SubmitClick(1)
    \/ SubmitGetUser(1, TRUE)
    \/ SubmitInsertCheckIn(1, TRUE)
    \/ SubmitUpdateGoals(1, TRUE)
    \/ SubmitUpsertWeight(1, TRUE)
    \/ RenderDashboard
    \/ Return
    \/ ClockTick

SpecDashboard == Init /\ [][NextDashboard]_vars

---------------------------------------------------------------------------
(* One check-in form and failing requests: SpecForm                        *)
(*                                                                         *)
(* The user opens the check-in page, types weights, goes back and forth    *)
(* between the input and the results, and applies; every request of a      *)
(* submission may fail, and the user may try again or leave.               *)

\* 'Apply Changes' is clicked
Apply(tab) ==
    /\ Len(check_ins) < MaxCheckIns
    /\ SubmitClick(tab)

NextForm ==
    \/ Onboard
    \/ \E loggedAverage \in SysLoggedAverages : LoadCheckInPage(1, loggedAverage)
    \/ \E weight \in SysFormWeights(1) : SetCurrentWeight(1, weight)
    \/ handleCalculate(1)
    \/ Back(1)
    \/ Apply(1)
    \/ \E user \in BOOLEAN : SubmitGetUser(1, user)
    \/ \E ok \in BOOLEAN : SubmitInsertCheckIn(1, ok)
    \/ \E ok \in BOOLEAN : SubmitUpdateGoals(1, ok)
    \/ \E ok \in BOOLEAN : SubmitUpsertWeight(1, ok)
    \/ LeavePage(1)
    \/ Tick(7 * msPerDay, MaxFormWeeks * 7 * msPerDay)

SpecForm == Init /\ [][NextForm]_vars

---------------------------------------------------------------------------
(* Two check-in forms: SpecTabs                                            *)
(*                                                                         *)
(* The user has the check-in page open in up to two tabs and applies the   *)
(* results in each; every request succeeds.                                *)

NextTabs ==
    \/ Onboard
    \/ \E tab \in Tabs, loggedAverage \in SysLoggedAverages : LoadCheckInPage(tab, loggedAverage)
    \/ \E tab \in Tabs : \E weight \in SysFormWeights(tab) : SetCurrentWeight(tab, weight)
    \/ \E tab \in Tabs : handleCalculate(tab)
    \/ \E tab \in Tabs : SubmitClick(tab)
    \/ \E tab \in Tabs : SubmitGetUser(tab, TRUE)
    \/ \E tab \in Tabs : SubmitInsertCheckIn(tab, TRUE)
    \/ \E tab \in Tabs : SubmitUpdateGoals(tab, TRUE)
    \/ \E tab \in Tabs : SubmitUpsertWeight(tab, TRUE)
    \/ Tick(7 * msPerDay, MaxFormWeeks * 7 * msPerDay)

SpecTabs == Init /\ [][NextTabs]_vars

---------------------------------------------------------------------------
(* Properties of the library calls (checked under SpecCalc)                *)

IsCall(fn) == call.fn = fn

\* the fixed message templates, by the direction they announce
ReducingReasons ==
    { "Lost less than expected. Reducing daily calories by 100.",
      "Gained more than expected. Reducing daily calories by 100.",
      "Weight increased slightly. Reducing calories by 50." }

IncreasingReasons ==
    { "Lost more than expected. Increasing daily calories by 100 to prevent too rapid loss.",
      "Gained less than expected. Increasing daily calories by 100.",
      "Weight decreased slightly. Increasing calories by 50." }

NoAdjustmentReasons ==
    { "On track! No adjustment needed.",
      "Maintaining weight. No adjustment needed." }

\* C1: calculateDailyCalorieTarget never returns dailyCalories below the
\* gender floor: 1500 for male, 1200 for female and for other.
C1_AtLeastGenderFloor ==
    IsCall("calculateDailyCalorieTarget") =>
        /\ call.gender = "male" => GreaterEq(ret.dailyCalories, Num(1500))
        /\ call.gender # "male" => GreaterEq(ret.dailyCalories, Num(1200))

\* a man whose computed target lies between the two floors is raised to 1500
C1_Witness ==
    /\ IsCall("calculateDailyCalorieTarget")
    /\ call.gender = "male"
    /\ Less(MathRound(Plus(call.tdee, ret.dailyDeficitSurplus)), Num(1500))
    /\ Greater(MathRound(Plus(call.tdee, ret.dailyDeficitSurplus)), Num(1200))
    /\ ret.dailyCalories = Num(1500)

\* C2: dailyDeficitSurplus = weeklyChange * 3500 / 7 and dailyCalories is
\* round(tdee + dailyDeficitSurplus) raised to the gender floor and never
\* lowered: at or above the floor it is returned as it is (tdee 2500 and
\* -1 lb/week give 2000).
C2_RoundedThenClampedUp ==
    IsCall("calculateDailyCalorieTarget") =>
        LET floor == IF call.gender = "male" THEN Num(1500) ELSE Num(1200)
            unclamped == MathRound(Plus(call.tdee, ret.dailyDeficitSurplus))
        IN  /\ ret.dailyDeficitSurplus = Over(Times(ret.weeklyChange, Num(3500)), Num(7))
            /\ ret.dailyCalories = MathMax(floor, unclamped)
            /\ GreaterEq(unclamped, floor) => ret.dailyCalories = unclamped
            /\ (call.tdee = Num(2500) /\ ret.weeklyChange = Num(-1))
                   => ret.dailyCalories = Num(2000)

\* the example of the claim: tdee 2500, 200 -> 190 lbs in ten weeks
C2_Witness ==
    /\ IsCall("calculateDailyCalorieTarget")
    /\ call.tdee = Num(2500)
    /\ ret.weeklyChange = Num(-1)
    /\ ret.dailyDeficitSurplus = Num(-500)
    /\ ret.dailyCalories = Num(2000)

\* C3: with a losing goal (expected < 0): actual > expected + 0.2 gives
\* target - 100 and 'Lost less than expected'; actual < expected - 0.2 gives
\* target + 100 and 'Lost more than expected'; anything in between, the two
\* boundaries included, leaves the target alone with 'On track'.
C3_LoseRegime ==
    (IsCall("performWeeklyCheckIn") /\ Less(ret.expectedWeeklyChange, Num(0))) =>
        LET actual == Minus(call.input.currentWeight, call.input.previousWeight)
            expected == ret.expectedWeeklyChange
            target == call.input.currentDailyTarget
        IN  /\ Greater(actual, Plus(expected, Lbs(2))) =>
                /\ ret.newDailyCalories = Minus(target, Num(100))
                /\ ret.adjustmentReason = "Lost less than expected. Reducing daily calories by 100."
            /\ Less(actual, Minus(expected, Lbs(2))) =>
                /\ ret.newDailyCalories = Plus(target, Num(100))
                /\ ret.adjustmentReason =
                     "Lost more than expected. Increasing daily calories by 100 to prevent too rapid loss."
            /\ (LessEq(Minus(expected, Lbs(2)), actual) /\ LessEq(actual, Plus(expected, Lbs(2)))) =>
                /\ ret.newDailyCalories = target
                /\ ret.adjustmentReason = "On track! No adjustment needed."

\* a losing goal met exactly at the upper boundary of the tolerance band
C3_Witness ==
    /\ IsCall("performWeeklyCheckIn")
    /\ Less(ret.expectedWeeklyChange, Num(0))
    /\ Minus(call.input.currentWeight, call.input.previousWeight)
         = Plus(ret.expectedWeeklyChange, Lbs(2))
    /\ ret.newDailyCalories = call.input.currentDailyTarget
    /\ ret.adjustmentReason = "On track! No adjustment needed."

\* C4: with a gaining goal (expected > 0): actual < expected - 0.2 gives
\* target + 100 and 'Gained less than expected'; actual > expected + 0.2
\* gives target - 100 and 'Gained more than expected'; otherwise the target
\* is unchanged with 'On track'.
C4_GainRegime ==
    (IsCall("performWeeklyCheckIn") /\ Greater(ret.expectedWeeklyChange, Num(0))) =>
        LET actual == Minus(call.input.currentWeight, call.input.previousWeight)
            expected == ret.expectedWeeklyChange
            target == call.input.currentDailyTarget
        IN  /\ Less(actual, Minus(expected, Lbs(2))) =>
                /\ ret.newDailyCalories = Plus(target, Num(100))
                /\ ret.adjustmentReason = "Gained less than expected. Increasing daily calories by 100."
            /\ Greater(actual, Plus(expected, Lbs(2))) =>
                /\ ret.newDailyCalories = Minus(target, Num(100))
                /\ ret.adjustmentReason = "Gained more than expected. Reducing daily calories by 100."
            /\ (~Less(actual, Minus(expected, Lbs(2))) /\ ~Greater(actual, Plus(expected, Lbs(2)))) =>
                /\ ret.newDailyCalories = target
                /\ ret.adjustmentReason = "On track! No adjustment needed."

\* a gaining goal with a gain that falls short by more than the tolerance
C4_Witness ==
    /\ IsCall("performWeeklyCheckIn")
    /\ Greater(ret.expectedWeeklyChange, Num(0))
    /\ Less(Minus(call.input.currentWeight, call.input.previousWeight),
            Minus(ret.expectedWeeklyChange, Lbs(2)))
    /\ ret.newDailyCalories = Plus(call.input.currentDailyTarget, Num(100))

\* C5: with a maintenance goal (expected = 0): |actual| > 0.2 and actual > 0
\* gives target - 50 ('Weight increased slightly'); |actual| > 0.2 and
\* actual < 0 gives target + 50 ('Weight decreased slightly'); |actual| <= 0.2
\* leaves the target alone ('Maintaining weight').
C5_MaintainRegime ==
    (IsCall("performWeeklyCheckIn") /\ ret.expectedWeeklyChange = Num(0)) =>
        LET actual == Minus(call.input.currentWeight, call.input.previousWeight)
            target == call.input.currentDailyTarget
        IN  /\ (Greater(MathAbs(actual), Lbs(2)) /\ Greater(actual, Num(0))) =>
                /\ ret.newDailyCalories = Minus(target, Num(50))
                /\ ret.adjustmentReason = "Weight increased slightly. Reducing calories by 50."
            /\ (Greater(MathAbs(actual), Lbs(2)) /\ Less(actual, Num(0))) =>
                /\ ret.newDailyCalories = Plus(target, Num(50))
                /\ ret.adjustmentReason = "Weight decreased slightly. Increasing calories by 50."
            /\ LessEq(MathAbs(actual), Lbs(2)) =>
                /\ ret.newDailyCalories = target
                /\ ret.adjustmentReason = "Maintaining weight. No adjustment needed."

\* a maintenance goal with a loss beyond the tolerance
C5_Witness ==
    /\ IsCall("performWeeklyCheckIn")
    /\ ret.expectedWeeklyChange = Num(0)
    /\ Less(Minus(call.input.currentWeight, call.input.previousWeight), Lbs(-2))
    /\ ret.newDailyCalories = Plus(call.input.currentDailyTarget, Num(50))
    /\ ret.adjustmentReason = "Weight decreased slightly. Increasing calories by 50."

\* C6: exactly one row of the decision table applies.  The regime follows
\* from the sign of expectedWeeklyChange alone, the reason is one of the
\* fixed templates (never empty), its direction agrees with the sign of
\* newDailyCalories - currentDailyTarget, and that difference is one of
\* -100, -50, 0, +50, +100.
C6_OneRowOfTheTable ==
    IsCall("performWeeklyCheckIn") =>
        LET expected == ret.expectedWeeklyChange
            reason == ret.adjustmentReason
            delta == Minus(ret.newDailyCalories, call.input.currentDailyTarget)
            lose == Less(expected, Num(0))
            gain == Greater(expected, Num(0))
            maintain == expected = Num(0)
        IN  /\ Cardinality({r \in {"lose", "gain", "maintain"} :
                              \/ r = "lose" /\ lose
                              \/ r = "gain" /\ gain
                              \/ r = "maintain" /\ maintain}) = 1
            /\ reason # ""
            /\ reason \in ReducingReasons \cup IncreasingReasons \cup NoAdjustmentReasons
            /\ lose <=> reason \in
                   { "Lost less than expected. Reducing daily calories by 100.",
                     "Lost more than expected. Increasing daily calories by 100 to prevent too rapid loss.",
                     "On track! No adjustment needed." } /\ ~gain
            /\ gain <=> reason \in
                   { "Gained less than expected. Increasing daily calories by 100.",
                     "Gained more than expected. Reducing daily calories by 100.",
                     "On track! No adjustment needed." } /\ ~lose
            /\ maintain <=> reason \in
                   { "Weight increased slightly. Reducing calories by 50.",
                     "Weight decreased slightly. Increasing calories by 50.",
                     "Maintaining weight. No adjustment needed." }
            /\ delta \in {Num(-100), Num(-50), Num(0), Num(50), Num(100)}
            /\ reason \in ReducingReasons <=> Less(delta, Num(0))
            /\ reason \in IncreasingReasons <=> Greater(delta, Num(0))
            /\ reason \in NoAdjustmentReasons <=> delta = Num(0)

\* an expected gain smaller than the tolerance is still the gain regime
C6_Witness ==
    /\ IsCall("performWeeklyCheckIn")
    /\ Greater(ret.expectedWeeklyChange, Num(0))
    /\ Less(ret.expectedWeeklyChange, Lbs(2))
    /\ ret.adjustmentReason = "Gained more than expected. Reducing daily calories by 100."
    /\ ret.newDailyCalories = Minus(call.input.currentDailyTarget, Num(100))

\* C9: the new macro grams are calculateMacroGrams of the adjusted calorie
\* target and the ratios passed in, whatever macroPreference says: each is
\* round(newDailyCalories * ratio / (sum of ratios) / kcal per gram); 2000
\* reduced to 1900 with ratios 0.4/0.3/0.3 gives 190 g of protein.
C9_MacrosFromNewTarget ==
    IsCall("performWeeklyCheckIn") =>
        LET in == call.input
            total == Plus(Plus(in.proteinRatio, in.carbsRatio), in.fatRatio)
            share(ratio, kcalPerGram) ==
                MathRound(Over(Over(Times(ret.newDailyCalories, ratio), total), Num(kcalPerGram)))
        IN  /\ ret.newProteinGrams = share(in.proteinRatio, 4)
            /\ ret.newCarbsGrams = share(in.carbsRatio, 4)
            /\ ret.newFatGrams = share(in.fatRatio, 9)
            /\ ( /\ in.currentDailyTarget = Num(2000)
                 /\ ret.newDailyCalories = Num(1900)
                 /\ <<in.proteinRatio, in.carbsRatio, in.fatRatio>>
                      = <<Frac(4, 10), Frac(3, 10), Frac(3, 10)>> )
               => ret.newProteinGrams = Num(190)

\* the example, with a macroPreference that names another preset
C9_Witness ==
    /\ IsCall("performWeeklyCheckIn")
    /\ call.input.macroPreference = "balanced"
    /\ call.input.proteinRatio = Frac(4, 10)
    /\ call.input.currentDailyTarget = Num(2000)
    /\ ret.newDailyCalories = Num(1900)
    /\ ret.newProteinGrams = Num(190)

\* C10: calculateTrueTDEE(avg, change, days) = round(avg - change*3500/days),
\* days being 7 when left out (2000 with -1 and 3000 with +1 both give
\* 2500), and the calculatedTDEE of performWeeklyCheckIn is that value for
\* avgDailyCalories, currentWeight - previousWeight and 7 days.
C10_TrueTDEE ==
    /\ IsCall("calculateTrueTDEE") =>
        LET days == IF call.daysTracked = Undefined THEN Num(7) ELSE call.daysTracked
        IN  /\ ret = MathRound(Minus(call.avgDailyCalories,
                                     Over(Times(call.weightChangeLbs, Num(3500)), days)))
            /\ (call.avgDailyCalories = Num(2000) /\ call.weightChangeLbs = Num(-1)
                  /\ days = Num(7)) => ret = Num(2500)
            /\ (call.avgDailyCalories = Num(3000) /\ call.weightChangeLbs = Num(1)
                  /\ days = Num(7)) => ret = Num(2500)
    /\ IsCall("performWeeklyCheckIn") =>
        ret.calculatedTDEE =
            MathRound(Minus(call.input.avgDailyCalories,
                            Times(Minus(call.input.currentWeight, call.input.previousWeight),
                                  Num(500))))

\* a period other than a week, where the result differs from a week's
C10_Witness ==
    /\ IsCall("calculateTrueTDEE")
    /\ call.daysTracked = Num(5)
    /\ call.avgDailyCalories = Num(2000)
    /\ call.weightChangeLbs = Num(-1)
    /\ ret = Num(2700)


---------------------------------------------------------------------------
(* Properties of the application (checked under Spec)                      *)

\* the change of the calorie target that a message template announces
AnnouncedChange(reason) ==
    IF reason \in {"Lost less than expected. Reducing daily calories by 100.",
                   "Gained more than expected. Reducing daily calories by 100."}
        THEN Num(-100)
    ELSE IF reason \in {"Lost more than expected. Increasing daily calories by 100 to prevent too rapid loss.",
                        "Gained less than expected. Increasing daily calories by 100."}
        THEN Num(100)
    ELSE IF reason = "Weight increased slightly. Reducing calories by 50." THEN Num(-50)
    ELSE IF reason = "Weight decreased slightly. Increasing calories by 50." THEN Num(50)
    ELSE Num(0)

UpdatePending == \E tab \in Tabs : forms[tab] # NoForm /\ forms[tab].pc = "updateGoals"

\* C7: the weekly check-in does not reapply the calorie floor.  Every
\* recorded check-in sets the new target to the old one plus the adjustment
\* of its regime, whatever the floor; each check-in starts from the target
\* the one before it stored; and the goals row holds the newest target.  So
\* a run that starts at the onboarding floor gets below it (the witness).
C7_CheckInsIgnoreTheFloor ==
    /\ \A i \in 1..Len(check_ins) :
          check_ins[i].new_daily_calories
            = Plus(check_ins[i].old_daily_calories, AnnouncedChange(check_ins[i].adjustment_reason))
    /\ \A i \in 1..(Len(check_ins) - 1) :
          check_ins[i + 1].old_daily_calories = check_ins[i].new_daily_calories
    /\ (goals # NoRow /\ check_ins # << >> /\ ~UpdatePending) =>
          goals.daily_calories = check_ins[Len(check_ins)].new_daily_calories

\* onboarding clamped the target of a woman to 1200; two check-ins later the
\* stored target is below 1200
C7_Witness ==
    /\ goals # NoRow
    /\ goals.gender = "female"
    /\ Len(check_ins) >= 2
    /\ check_ins[1].old_daily_calories = Num(1200)
    /\ Less(goals.daily_calories, Num(1200))

\* C8: after onboarding and any number of weekly check-ins the stored
\* dailyCalories is positive and the stored protein, carbs and fat grams
\* are non-negative.
C8_StoredTargetsPositive ==
    goals # NoRow =>
        /\ Greater(goals.daily_calories, Num(0))
        /\ GreaterEq(goals.protein_grams, Num(0))
        /\ GreaterEq(goals.carbs_grams, Num(0))
        /\ GreaterEq(goals.fat_grams, Num(0))


\* the result of the recorded performWeeklyCheckIn call had the user logged
\* avgDailyCalories instead
WithIntake(avgDailyCalories) ==
    performWeeklyCheckIn([call.input EXCEPT !.avgDailyCalories = avgDailyCalories], now)

\* C27: in performWeeklyCheckIn the observed intake does not influence the
\* new targets: for two inputs that differ only in avgDailyCalories,
\* newDailyCalories, adjustmentReason, expectedWeeklyChange,
\* actualWeeklyChange and the three new macro gram values are identical;
\* only calculatedTDEE differs.
C27_IntakeOnlyMovesTDEE ==
    IsCall("performWeeklyCheckIn") =>
        \A avgDailyCalories \in CallAvgCalories \ {call.input.avgDailyCalories} :
            LET other == WithIntake(avgDailyCalories)
            IN  /\ other.newDailyCalories = ret.newDailyCalories
                /\ other.adjustmentReason = ret.adjustmentReason
                /\ other.expectedWeeklyChange = ret.expectedWeeklyChange
                /\ other.actualWeeklyChange = ret.actualWeeklyChange
                /\ other.newProteinGrams = ret.newProteinGrams
                /\ other.newCarbsGrams = ret.newCarbsGrams
                /\ other.newFatGrams = ret.newFatGrams
                /\ other.calculatedTDEE # ret.calculatedTDEE

\* the user ate 3000 kcal a day against a target of 2000 and the target is
\* changed all the same as for 1800 kcal a day
C27_Witness ==
    /\ IsCall("performWeeklyCheckIn")
    /\ call.input.avgDailyCalories = Num(3000)
    /\ call.input.currentDailyTarget = Num(2000)
    /\ ret.newDailyCalories # Num(2000)
    /\ WithIntake(Num(1800)).newDailyCalories = ret.newDailyCalories
    /\ WithIntake(Num(1800)).calculatedTDEE # ret.calculatedTDEE

---------------------------------------------------------------------------
(* Properties of the estimator and the goal translator (checked under      *)
(* SpecGoal), and of a check-in past its target date (under SpecCalc)      *)

C12_ThreePoundLossIsDangerous ==
    (IsCall("validateGoalSafety") /\ call.weeklyChange = Num(-3)) =>
        /\ ~ret.isSafe
        /\ \E i \in 1..Len(ret.message) : ret.message[i] = "dangerous"

\* C13 (as claimed): validateGoalSafety(-1.5) returns isRealistic = true and
\* isSafe = false.
C13_ModerateLossIsAggressive ==
    (IsCall("validateGoalSafety") /\ call.weeklyChange = Frac(-3, 2)) =>
        /\ ret.isRealistic
        /\ ~ret.isSafe

\* C13 (amended): validateGoalSafety(-1.5) returns isRealistic = true and
\* isSafe = true with the message of the safe tier: 1.5 lbs/week is within
\* the 2 lbs/week limit for a loss.
C13_ModerateLossIsSafe ==
    (IsCall("validateGoalSafety") /\ call.weeklyChange = Frac(-3, 2)) =>
        /\ ret.isRealistic
        /\ ret.isSafe
        /\ ret.message = <<"Your", "goal", "is", "realistic", "and", "safe.">>

C13_Witness ==
    /\ IsCall("validateGoalSafety")
    /\ call.weeklyChange = Frac(-3, 2)
    /\ ret.isRealistic
    /\ ret.isSafe

\* C14: calculateRequiredWeeklyChange(current, target, targetDate) returns
\* (target - current) / weeks for weeks = daysBetween(now, targetDate) / 7
\* when weeks > 0, so that its sign is the sign of target - current
\* (negative loses, positive gains, zero maintains); it returns 0 whenever
\* weeks <= 0, which is the case when the target date is today or past,
\* whatever the weights.
C14_RequiredWeeklyChange ==
    IsCall("calculateRequiredWeeklyChange") =>
        LET days == MathRound(Frac(call.targetDate - now, msPerDay))
            weeks == Over(days, Num(7))
            totalChange == Minus(call.targetWeightLbs, call.currentWeightLbs)
        IN  /\ Greater(weeks, Num(0)) =>
                /\ ret = Over(totalChange, weeks)
                /\ Sign(ret[1]) = Sign(totalChange[1])
                /\ Less(ret, Num(0)) <=> Less(call.targetWeightLbs, call.currentWeightLbs)
                /\ Greater(ret, Num(0)) <=> Greater(call.targetWeightLbs, call.currentWeightLbs)
            /\ LessEq(weeks, Num(0)) => ret = Num(0)
            /\ call.targetDate <= now => ret = Num(0)

\* a target date that has passed, with ten pounds still to lose
C14_Witness ==
    /\ IsCall("calculateRequiredWeeklyChange")
    /\ call.targetDate < now
    /\ call.currentWeightLbs = Num(200)
    /\ call.targetWeightLbs = Num(190)
    /\ ret = Num(0)

\* C15: a 0 that calculateRequiredWeeklyChange returns because the target
\* date is today or past means 'no defined rate', not a maintenance goal:
\* performWeeklyCheckIn with such a target date and a target weight other
\* than the previous weight does not apply the rows of the maintain regime
\* (no adjustment by 50 either way, none of the maintenance reasons).
C15_PastTargetIsNotMaintenance ==
    ( /\ IsCall("performWeeklyCheckIn")
      /\ call.input.targetDate <= now
      /\ call.input.targetWeightLbs # call.input.previousWeight ) =>
        /\ ret.adjustmentReason \notin
               { "Weight increased slightly. Reducing calories by 50.",
                 "Weight decreased slightly. Increasing calories by 50.",
                 "Maintaining weight. No adjustment needed." }
        /\ Minus(ret.newDailyCalories, call.input.currentDailyTarget)
               \notin {Num(-50), Num(50)}

C17_SlackWithinThree ==
    ( /\ IsCall("calculateMacroGrams")
      /\ Plus(Plus(call.proteinRatio, call.carbsRatio), call.fatRatio) = Num(1)
      /\ GreaterEq(call.proteinRatio, Num(0))
      /\ GreaterEq(call.carbsRatio, Num(0))
      /\ GreaterEq(call.fatRatio, Num(0)) ) =>
        LET recombined == Plus(Plus(Times(Num(4), ret.proteinGrams),
                                    Times(Num(4), ret.carbsGrams)),
                               Times(Num(9), ret.fatGrams))
        IN  LessEq(MathAbs(Minus(recombined, call.dailyCalories)), Num(3))

\* C17 (amended): for ratios >= 0 that add up to 1 the grams recombine to
\* dailyCalories within 8.5 kcal, the sum of the three rounding errors: each
\* gram figure is off by at most half a gram, worth 2, 2 and 4.5 kcal.
C17_SlackWithinRoundingErrors ==
    ( /\ IsCall("calculateMacroGrams")
      /\ Plus(Plus(call.proteinRatio, call.carbsRatio), call.fatRatio) = Num(1)
      /\ GreaterEq(call.proteinRatio, Num(0))
      /\ GreaterEq(call.carbsRatio, Num(0))
      /\ GreaterEq(call.fatRatio, Num(0)) ) =>
        LET cal == call.dailyCalories
            recombined == Plus(Plus(Times(Num(4), ret.proteinGrams),
                                    Times(Num(4), ret.carbsGrams)),
                               Times(Num(9), ret.fatGrams))
            off(grams, ratio, kcalPerGram) ==
                MathAbs(Minus(grams, Over(Times(cal, ratio), Num(kcalPerGram))))
        IN  /\ LessEq(off(ret.proteinGrams, call.proteinRatio, 4), Frac(1, 2))
            /\ LessEq(off(ret.carbsGrams, call.carbsRatio, 4), Frac(1, 2))
            /\ LessEq(off(ret.fatGrams, call.fatRatio, 9), Frac(1, 2))
            /\ LessEq(MathAbs(Minus(recombined, cal)), Frac(17, 2))

\* the low-carb preset at 1230 kcal: 108 g, 62 g and 62 g make 1238 kcal
C17_Witness ==
    /\ IsCall("calculateMacroGrams")
    /\ call.dailyCalories = Num(1230)
    /\ call.proteinRatio = Frac(35, 100)
    /\ call.carbsRatio = Frac(20, 100)
    /\ call.fatRatio = Frac(45, 100)
    /\ ret = [proteinGrams |-> Num(108), carbsGrams |-> Num(62), fatGrams |-> Num(62)]

\* C18: getMacroTargets(cal, preference, customRatios) returns dailyCalories
\* = cal and, for every preference other than manual, the grams of the fixed
\* preset (balanced 30/35/35, high_protein 40/30/30, low_carb 35/20/45, keto
\* 30/5/65) whatever customRatios is passed; for manual the customRatios
\* supplied are the ones used, after normalization.
C18_MacroTargets ==
    IsCall("getMacroTargets") =>
        LET cal == call.dailyCalories
            presets == [ balanced     |-> <<30, 35, 35>>,
                         high_protein |-> <<40, 30, 30>>,
                         low_carb     |-> <<35, 20, 45>>,
                         keto         |-> <<30, 5, 65>> ]
            grams(p, c, f) ==
                LET total == Plus(Plus(p, c), f)
                IN  << MathRound(Over(Times(cal, Over(p, total)), Num(4))),
                       MathRound(Over(Times(cal, Over(c, total)), Num(4))),
                       MathRound(Over(Times(cal, Over(f, total)), Num(9))) >>
            returned == <<ret.proteinGrams, ret.carbsGrams, ret.fatGrams>>
        IN  /\ ret.dailyCalories = cal
            /\ call.preference # "manual" =>
                  returned = grams(Frac(presets[call.preference][1], 100),
                                   Frac(presets[call.preference][2], 100),
                                   Frac(presets[call.preference][3], 100))
            /\ (call.preference = "manual" /\ call.customRatios # NoRatios) =>
                  returned = grams(call.customRatios.protein, call.customRatios.carbs,
                                   call.customRatios.fat)

\* the balanced preset asked for with custom ratios 40/30/30 passed along:
\* the grams are those of 30/35/35
C18_Witness ==
    /\ IsCall("getMacroTargets")
    /\ call.preference = "balanced"
    /\ call.customRatios = [protein |-> Frac(4, 10), carbs |-> Frac(3, 10), fat |-> Frac(3, 10)]
    /\ call.dailyCalories = Num(2000)
    /\ ret.proteinGrams = Num(150)
    /\ ret.carbsGrams = Num(175)
    /\ ret.fatGrams = Num(78)

\* C19: every entry of MACRO_PRESETS (balanced, high_protein, low_carb, keto
\* and the default for manual) has protein + carbs + fat = 1 within 0.01 and
\* no negative component.  The entries are looked at as getMacroTargets is
\* called with each of the preferences.
C19_PresetsSumToOne ==
    IsCall("getMacroTargets") =>
        /\ DOMAIN MACRO_PRESETS = {"balanced", "high_protein", "low_carb", "keto", "manual"}
        /\ LET preset == MACRO_PRESETS[call.preference]
               sum == Plus(Plus(preset.protein, preset.carbs), preset.fat)
           IN  /\ LessEq(MathAbs(Minus(sum, Num(1))), Frac(1, 100))
               /\ GreaterEq(preset.protein, Num(0))
               /\ GreaterEq(preset.carbs, Num(0))
               /\ GreaterEq(preset.fat, Num(0))

\* the keto preset in use: 30/5/65 of 2000 kcal
C19_Witness ==
    /\ IsCall("getMacroTargets")
    /\ call.preference = "keto"
    /\ call.customRatios = NoRatios
    /\ call.dailyCalories = Num(2000)
    /\ ret.proteinGrams = Num(150)
    /\ ret.carbsGrams = Num(25)
    /\ ret.fatGrams = Num(144)

C21_WholeYearsElapsed ==
    (IsCall("calculateAge") /\ call.referenceDate >= call.dateOfBirth) =>
        LET born == call.born
            on == call.on
            birthdayToCome == \/ on[2] < born[2]
                              \/ on[2] = born[2] /\ on[3] < born[3]
        IN  ret = Returned(Num(on[1] - born[1] - (IF birthdayToCome THEN 1 ELSE 0)))

\* C22: calculateAge fails with an InvalidInput error whenever referenceDate
\* precedes birthDate; it never returns a number for such input.
C22_ReferenceBeforeBirthFails ==
    (IsCall("calculateAge") /\ call.referenceDate < call.dateOfBirth) =>
        ret = [error |-> "InvalidInput"]

\* C26: out-of-range input is rejected rather than propagated:
\* calculateMacroGrams called with ratios whose sum is zero fails with an
\* InvalidInput error instead of returning NaN gram values, and a negative
\* weight is likewise rejected by calculateBMR instead of a number being
\* returned.
C26_OutOfRangeRejected ==
    /\ ( /\ IsCall("calculateMacroGrams")
         /\ Plus(Plus(call.proteinRatio, call.carbsRatio), call.fatRatio) = Num(0) )
           => ret = [error |-> "InvalidInput"]
    /\ ( /\ IsCall("calculateBMR")
         /\ Less(call.input.weightKg, Num(0)) )
           => Len(ret) # 2

---------------------------------------------------------------------------
(* Properties of the dashboard (checked under SpecDashboard)               *)

\* the time since midnight of the last check-in date, in ticks
SinceLastCheckIn == now - DateOf(call.last_check_in)

\* what C23 says of a rendered dashboard
C23_AvailableAsStated ==
    IsCall("DashboardContent") =>
        /\ call.last_check_in = NoDate => ret.checkInAvailable
        /\ call.last_check_in # NoDate =>
              /\ ret.checkInAvailable
                   <=> GreaterEq(MathRound(Frac(SinceLastCheckIn, msPerDay)), Num(7))
              /\ SinceLastCheckIn = 3 * msPerDay => ~ret.checkInAvailable
              /\ SinceLastCheckIn = 7 * msPerDay => ret.checkInAvailable

\* what C23 says of passing time
C23_StaysAvailable ==
    ( /\ goals # NoRow
      /\ goals' = goals
      /\ now' >= now
      /\ goals.last_check_in # NoDate
      /\ isCheckInAvailable(DateOf(goals.last_check_in), now) )
        => isCheckInAvailable(DateOf(goals.last_check_in), now')

\* C23: isCheckInAvailable(lastCheckInDate) is true if lastCheckInDate is
\* null, and otherwise exactly when daysBetween(lastCheckInDate, now) >= 7,
\* the elapsed time being rounded to the nearest whole day (false 3 days
\* after, true 7 days after); as time advances with lastCheckInDate fixed,
\* once it is true it stays true.
C23_CheckInAvailable == [](C23_AvailableAsStated) /\ [][C23_StaysAvailable]_vars

\* six and a half days after midnight of the check-in date: rounds to 7
C23_Witness ==
    /\ IsCall("DashboardContent")
    /\ call.last_check_in # NoDate
    /\ 2 * SinceLastCheckIn = 13 * msPerDay
    /\ ret.checkInAvailable

---------------------------------------------------------------------------
(* Properties of repeated calls (checked under SpecRepeat)                 *)

\* C25: two calls of calculateDailyCalorieTarget (and likewise of
\* calculateRequiredWeeklyChange and of performWeeklyCheckIn) with identical
\* arguments yield identical outputs, whenever the calls are made.
C25_SameArgumentsSameOutput ==
    [][ (call # NoCall /\ call' = call) => ret' = ret ]_vars

---------------------------------------------------------------------------
(* Properties of the check-in form (checked under SpecTabs and SpecForm)   *)

\* a check-in has been applied and the next one is not yet available
CheckInApplied ==
    /\ goals # NoRow
    /\ goals.last_check_in # NoDate
    /\ ~isCheckInAvailable(DateOf(goals.last_check_in), now)

\* C28: across any interleaving of check-in page loads and CheckInForm
\* submits (including two forms loaded while the check-in was available), at
\* most one adjustment is applied per 7-day window: after a submit has set
\* last_check_in to today, no further submit changes the goals or inserts a
\* check_ins row until isCheckInAvailable is true again.
C28_OneCheckInPerWindow ==
    [][ CheckInApplied => (goals' = goals /\ check_ins' = check_ins) ]_vars

\* what handleCalculate of form f passes to performWeeklyCheckIn
CheckInInput(f) ==
    [ previousWeight     |-> f.previousWeight,
      currentWeight      |-> f.currentWeight,
      avgDailyCalories   |-> f.avgDailyCalories,
      currentDailyTarget |-> f.goals.daily_calories,
      targetWeightLbs    |-> f.goals.target_weight,
      targetDate         |-> DateOf(f.goals.target_date),
      macroPreference    |-> f.goals.macro_preference,
      proteinRatio       |-> f.goals.protein_ratio,
      carbsRatio         |-> f.goals.carbs_ratio,
      fatRatio           |-> f.goals.fat_ratio ]

\* 'Apply Changes' is on the screen of the form
CanApply(f) == f # NoForm /\ f.showResults /\ f.results # Null

\* the results shown were computed from the weight the form holds, at the
\* time of some earlier click on 'Calculate Adjustments'
C29_ResultsOfCurrentWeight ==
    \A tab \in Tabs :
        CanApply(forms[tab]) =>
            \E t \in 0..now :
                forms[tab].results = performWeeklyCheckIn(CheckInInput(forms[tab]), t)

\* the weight changes only beside the input, and the results view is
\* entered only with fresh results
C29_FormSteps ==
    \A tab \in Tabs :
        (forms[tab] # NoForm /\ forms'[tab] # NoForm) =>
            /\ forms'[tab].currentWeight # forms[tab].currentWeight =>
                  ~forms[tab].showResults /\ ~forms'[tab].showResults
            /\ (~forms[tab].showResults /\ forms'[tab].showResults) =>
                  forms'[tab].results = performWeeklyCheckIn(CheckInInput(forms'[tab]), now)

\* what is written belongs together: the row's weight_change and targets
\* are those of performWeeklyCheckIn for the row's weight, the goals take
\* the weight and the targets of the row, the weight logged is that weight
C29_WritesConsistent ==
    /\ check_ins' # check_ins =>
          LET row == check_ins'[Len(check_ins')]
          IN  /\ row.weight_change = Minus(row.weight, row.previous_weight)
              /\ row.actual_weekly_change = row.weight_change
              /\ \E tab \in Tabs, t \in 0..now :
                    /\ forms[tab] # NoForm
                    /\ forms[tab].pc = "insertCheckIn"
                    /\ LET results == performWeeklyCheckIn(
                               [CheckInInput(forms[tab]) EXCEPT !.currentWeight = row.weight], t)
                       IN  /\ row.new_daily_calories = results.newDailyCalories
                           /\ row.adjustment_reason = results.adjustmentReason
                           /\ row.calculated_tdee = results.calculatedTDEE
                           /\ row.expected_weekly_change = results.expectedWeeklyChange
                           /\ row.new_protein_grams = results.newProteinGrams
                           /\ row.new_carbs_grams = results.newCarbsGrams
                           /\ row.new_fat_grams = results.newFatGrams
    /\ (goals # NoRow /\ goals' # goals) =>
          LET row == check_ins[Len(check_ins)]
          IN  /\ check_ins # << >>
              /\ goals'.current_weight = row.weight
              /\ goals'.daily_calories = row.new_daily_calories
              /\ goals'.protein_grams = row.new_protein_grams
              /\ goals'.carbs_grams = row.new_carbs_grams
              /\ goals'.fat_grams = row.new_fat_grams
    /\ (goals # NoRow /\ weight_history' # weight_history) =>
          \E d \in DOMAIN weight_history' \ DOMAIN weight_history :
              weight_history'[d] = goals.current_weight

\* C29: in CheckInForm, whenever 'Apply Changes' can be triggered
\* (showResults is true and results is non-null), results equals
\* performWeeklyCheckIn evaluated on the form's current currentWeight:
\* currentWeight changes only while showResults is false and the results
\* view is re-entered only through handleCalculate, so the persisted weight,
\* weight_change and new targets are mutually consistent.
C29_ResultsMatchWeight ==
    /\ [](C29_ResultsOfCurrentWeight)
    /\ [][C29_FormSteps /\ C29_WritesConsistent]_vars

\* the user went back, typed another weight and calculated again, and a row
\* with that weight has been stored
C29_Witness ==
    /\ CanApply(forms[1])
    /\ forms[1].currentWeight # forms[1].latestWeight
    /\ forms[1].results.actualWeeklyChange
          = Minus(forms[1].currentWeight, forms[1].previousWeight)
    /\ check_ins # << >>
    /\ check_ins[Len(check_ins)].weight = forms[1].currentWeight

\* a submission under way has results, and isSubmitting tells it is under way
C30_SubmissionHasResults ==
    \A tab \in Tabs :
        forms[tab] # NoForm =>
            /\ forms[tab].isSubmitting <=> forms[tab].pc # "idle"
            /\ forms[tab].pc # "idle" =>
                  /\ forms[tab].submitted # Null
                  /\ forms[tab].submitted.results # Null

\* the writes of a submission come in the order check_ins, goals,
\* weight_history, each after the one before went through
C30_WritesInOrder ==
    /\ check_ins' # check_ins =>
          /\ \E tab \in Tabs : /\ forms[tab] # NoForm
                               /\ forms[tab].pc = "insertCheckIn"
                               /\ forms'[tab] # NoForm
                               /\ forms'[tab].pc = "updateGoals"
          /\ Len(check_ins') = Len(check_ins) + 1
          /\ goals' = goals
          /\ weight_history' = weight_history
    /\ (goals # NoRow /\ goals' # goals) =>
          /\ \E tab \in Tabs : /\ forms[tab] # NoForm
                               /\ forms[tab].pc = "updateGoals"
                               /\ forms'[tab] # NoForm
                               /\ forms'[tab].pc = "upsertWeight"
          /\ check_ins # << >>
          /\ check_ins' = check_ins
          /\ weight_history' = weight_history
    /\ (goals # NoRow /\ weight_history' # weight_history) =>
          /\ \E tab \in Tabs : /\ forms[tab] # NoForm
                               /\ forms[tab].pc = "upsertWeight"
                               /\ forms'[tab] = NoForm
          /\ goals' = goals
          /\ check_ins' = check_ins

\* a submission moves on only after the answer it waited for was good, and
\* it navigates only after the weight upsert
C30_StepsInOrder ==
    \A tab \in Tabs :
        forms[tab] # NoForm =>
            /\ (forms'[tab] # NoForm /\ forms'[tab].pc # forms[tab].pc) =>
                  /\ forms'[tab].pc = "getUser" => forms[tab].pc = "idle"
                  /\ forms'[tab].pc = "insertCheckIn" => forms[tab].pc = "getUser"
                  /\ forms'[tab].pc = "updateGoals" =>
                        /\ forms[tab].pc = "insertCheckIn"
                        /\ Len(check_ins') = Len(check_ins) + 1
                  /\ forms'[tab].pc = "upsertWeight" =>
                        /\ forms[tab].pc = "updateGoals"
                        /\ goals'.last_check_in = forms[tab].today
            /\ (forms'[tab] = NoForm /\ forms[tab].pc # "idle") =>
                  /\ forms[tab].pc = "upsertWeight"
                  /\ goals.last_check_in = forms[tab].today

\* a failed submission sets error, clears isSubmitting, writes nothing and
\* stays on the page
C30_Failure ==
    \A tab \in Tabs :
        ( /\ forms[tab] # NoForm
          /\ forms[tab].pc \in {"getUser", "insertCheckIn", "updateGoals"}
          /\ forms'[tab] # NoForm
          /\ forms'[tab].pc = "idle" ) =>
            /\ forms'[tab].error # NoError
            /\ ~forms'[tab].isSubmitting
            /\ goals' = goals
            /\ check_ins' = check_ins
            /\ weight_history' = weight_history

\* C30: CheckInForm.handleSubmit persists in the order check_ins insert,
\* then goals update, then weight_history upsert, then navigation: if the
\* user is not authenticated or the check_ins insert fails, the goals row is
\* not updated and there is no navigation; if the goals update fails there
\* is no weight upsert and no navigation; in every failure case error is set
\* and isSubmitting returns to false, and with results = null nothing is
\* written at all.
C30_PersistInOrder ==
    /\ [](C30_SubmissionHasResults)
    /\ [][C30_WritesInOrder /\ C30_StepsInOrder /\ C30_Failure]_vars

\* the check_ins row is stored and the goals update has failed: the goals
\* are as before, the form shows the error
C30_Witness ==
    /\ forms[1] # NoForm
    /\ forms[1].error = "goalsError"
    /\ ~forms[1].isSubmitting
    /\ forms[1].pc = "idle"
    /\ check_ins # << >>
    /\ goals.last_check_in = NoDate
    /\ goals.daily_calories = check_ins[1].old_daily_calories

=============================================================================
